---------------------------- MODULE Spec2Model ----------------------------
(***************************************************************************)
(* Model of the avatar back end: the in-memory conversation store          *)
(* (backend/models/conversation.py), the AI chat routes                    *)
(* (backend/routes/ai_routes.py) with the AI response service              *)
(* (backend/services/ai_service.py), and the three text chunkers.          *)
(*                                                                         *)
(* Conventions.  Text is a sequence of one-character strings.  datetime    *)
(* values are integers read from the clock `now`, which only moves         *)
(* forward (one unit = one hour).  uuid4() is a draw from a counter, so    *)
(* every identifier it returns is fresh.  None is a named value of the     *)
(* field's type (NoneId, "None").                                          *)
(***************************************************************************)
EXTENDS Integers, Sequences, FiniteSets, TLC

\* ------------------------------------------------------------------ bounds
\* Calls made on the store, clock ticks included, in one run of the library.
MaxCalls == 5

\* Deltas one upstream completion stream delivers.
MaxDeltas == 3

\* Clock ticks, deletions and cleanups while requests are being served.
MaxAdmin == 1

\* Length of the texts handed to a chunker.
MaxText == 5

\* Chunk sizes and overlaps a chunker is configured with.
MaxChunkSize == 4

MaxOverlap == 3

\* Iterations of a chunker's loop that are followed.
MaxIterations == 8

\* Entries of a folder handed to process_documents_folder.
MaxFiles == 3

\* Operations performed on the Azure RAG service in one run.
MaxRagCalls == 2

\* Requests for a speech token in one run.
MaxTokenRequests == 3

\* Chunks in the corpus of the lexical search, characters in one chunk's
\* content and in the query, and the largest max_results asked for.
MaxChunks == 3

MaxContent == 2

MaxQuery == 3

MaxResults == 2

\* Bytes in one uploaded recording.
MaxAudio == 13

\* Messages in the session the background analysis is run for.
MaxHistory == 4

\* max_age_hours values passed to cleanup_old_sessions.
Ages == {0, 1, 2}

\* ------------------------------------------------------- values of fields
NoneId == 0
EmptyId == 0 - 1
GhostId == 0 - 2
UserIds == {"None"}
Contents == {<<"a">>, <<"a", " ", "b">>}
\* Results of a context analysis: the safe default and one real result.
Analyses == {[context_summary |-> "", topics |-> <<>>, sentiment |-> "neutral"],
             [context_summary |-> "s1", topics |-> <<"t1">>, sentiment |-> "positive"]}

VARIABLES
    now,        \* datetime.now()
    heap,       \* the ConversationSession objects ever constructed, by reference
    sessions,   \* ConversationManager.sessions: key -> reference of the session
    last_call,  \* the latest call of a ConversationManager method and its result
    prev_call,  \* the call before it
    calls,      \* number of calls made so far
    env,        \* the process environment: USE_MOCK_AI, key vault in use
    config_cache,      \* ai_routes._config_cache
    config_loads,      \* number of get_configuration() invocations
    ai_service,        \* ai_service.ai_service, the process-wide AIService
    background_tasks,  \* session ids handed to BackgroundTasks.add_task
    req,        \* the requests in flight: locals of each route coroutine
    chunker,    \* one run of a text chunker: its arguments and loop variables
    rag,        \* the AzureRAGService instance, the disk and the services behind it
    speech,     \* GET /api/get-speech-token: environment, upstream calls, answer
    indexer,    \* one run of scripts/index_documents.py
    search,     \* one call of SimpleEmbeddingService.search_chunks
    audio,      \* one upload passed through convert_audio_to_wav, twice
    updater,    \* one run of scripts/update_search_index.py
    task        \* one run of the background task analyze_conversation_context

store_vars == <<now, heap, sessions, last_call, prev_call, calls>>

server_vars == <<env, config_cache, config_loads, ai_service, background_tasks, req>>

tool_vars == <<chunker, rag, speech, indexer, search, audio, updater, task>>

vars == <<store_vars, server_vars, tool_vars>>

\* ----------------------------------------------------------- dict helpers
DictSet(d, k, v) == [x \in (DOMAIN d) \cup {k} |-> IF x = k THEN v ELSE d[x]]

DictDel(d, ks) == [x \in (DOMAIN d) \ ks |-> d[x]]

EmptyDict == [x \in {} |-> 0]

Min(a, b) == IF a < b THEN a ELSE b

Max(a, b) == IF a > b THEN a ELSE b

\* ---------------------------------------------------- ConversationSession
\* ConversationMessage(role=, content=, metadata=): timestamp defaults to now.
ConversationMessage(role, content, metadata, t) ==
    [role |-> role, content |-> content, timestamp |-> t, metadata |-> metadata]

\* ConversationSession(user_id=): session_id from uuid4(), empty history,
\* created_at and updated_at from datetime.now(), neutral context.
ConversationSession(uuid, user_id, t) ==
    [session_id |-> uuid, user_id |-> user_id, messages |-> <<>>,
     created_at |-> t, updated_at |-> t,
     context_summary |-> "None", topics |-> <<>>, sentiment |-> "neutral"]

add_message_prepend(s, role, content, metadata, t) ==
    [s EXCEPT !.messages = <<ConversationMessage(role, content, metadata, t)>> \o @,
              !.updated_at = t]

add_message(s, role, content, metadata, t) ==
    [s EXCEPT !.messages = Append(@, ConversationMessage(role, content, metadata, t)),
              !.updated_at = t]

\* Python's seq[i:]: a negative i counts from the end, and the start is
\* clamped to the sequence.
PySliceFrom(seq, i) ==
    LET start == IF i < 0 THEN Max(0, Len(seq) + i) ELSE Min(i, Len(seq))
    IN  SubSeq(seq, start + 1, Len(seq))

get_recent_messages_head(s, limit) ==
    IF Len(s.messages) > limit THEN SubSeq(s.messages, 1, limit) ELSE s.messages

\* messages[-limit:] if len(messages) > limit else messages
get_recent_messages(s, limit) ==
    IF Len(s.messages) > limit THEN PySliceFrom(s.messages, 0 - limit) ELSE s.messages

get_conversation_length(s) == Len(s.messages)

update_context(s, summary, topics, sentiment, t) ==
    [s EXCEPT !.context_summary = summary, !.topics = topics,
              !.sentiment = sentiment, !.updated_at = t]

\* ---------------------------------------------------- ConversationManager
\* uuid4(): the next unused identifier.
uuid4 == Len(heap) + 1

\* The reference of the object a constructor call returns.
NewRef == Len(heap) + 1

get_session(session_id) ==
    IF session_id \in DOMAIN sessions THEN sessions[session_id] ELSE 0

\* `if session_id and session_id in self.sessions`
KnownId_never(session_id) == FALSE

KnownId(session_id) ==
    session_id \notin {NoneId, EmptyId} /\ session_id \in DOMAIN sessions

\* The set cleanup_old_sessions deletes: updated_at < now - max_age_hours.
expired_sessions_le(max_age_hours) ==
    {k \in DOMAIN sessions : heap[sessions[k]].updated_at <= now - max_age_hours}

expired_sessions(max_age_hours) ==
    {k \in DOMAIN sessions : heap[sessions[k]].updated_at < now - max_age_hours}

\* The record of one call: what was asked, what came back, and the size of
\* the store before the call.
CallRecord(op, arg, ret) ==
    [op |-> op, arg |-> arg, ret |-> ret, at |-> now,
     known |-> arg \in DOMAIN sessions,
     before |-> Cardinality(DOMAIN sessions)]

NoCall == [op |-> "none", arg |-> NoneId, ret |-> 0, at |-> 0,
           known |-> FALSE, before |-> 0]

Log(op, arg, ret) ==
    /\ calls < MaxCalls
    /\ calls' = calls + 1
    /\ last_call' = CallRecord(op, arg, ret)
    /\ prev_call' = last_call

create_session(user_id) ==
    LET s == ConversationSession(uuid4, user_id, now)
    IN  [heap |-> Append(heap, s),
         sessions |-> DictSet(sessions, s.session_id, NewRef),
         ref |-> NewRef]

get_or_create_session_adopting(session_id, user_id) ==
    IF KnownId(session_id)
    THEN [heap |-> heap, sessions |-> sessions, ref |-> sessions[session_id]]
    ELSE IF session_id \in {NoneId, EmptyId} THEN create_session(user_id)
    ELSE [heap |-> Append(heap, ConversationSession(session_id, user_id, now)),
          sessions |-> DictSet(sessions, session_id, NewRef),
          ref |-> NewRef]

get_or_create_session(session_id, user_id) ==
    IF KnownId(session_id)
    THEN [heap |-> heap, sessions |-> sessions, ref |-> sessions[session_id]]
    ELSE create_session(user_id)

\* Identifiers a caller can present: None, "", an identifier the store never
\* issued, and every identifier it has issued (deleted ones included).
ClientIds == {NoneId, EmptyId, GhostId} \cup (1..Len(heap))

Refs == 1..Len(heap)

\* ------------------------------------------------- calls on the store
Tick ==
    /\ calls < MaxCalls
    /\ calls' = calls + 1
    /\ now' = now + 1
    /\ UNCHANGED <<heap, sessions, last_call, prev_call, server_vars, tool_vars>>

CreateSession ==
    /\ \E u \in UserIds :
         LET c == create_session(u)
         IN  /\ heap' = c.heap
             /\ sessions' = c.sessions
             /\ Log("create_session", NoneId, c.ref)
    /\ UNCHANGED <<now, server_vars, tool_vars>>

GetOrCreateSession ==
    \E sid \in ClientIds, u \in UserIds :
        LET g == get_or_create_session(sid, u)
        IN  /\ heap' = g.heap
            /\ sessions' = g.sessions
            /\ Log("get_or_create_session", sid, g.ref)
            /\ UNCHANGED <<now, server_vars, tool_vars>>

\* add_user_message / add_assistant_message: look the session up, append,
\* report whether it existed.
AddMessageById ==
    \E sid \in ClientIds, role \in {"user", "assistant"}, c \in Contents :
        LET ref == get_session(sid)
        IN  /\ heap' = IF ref # 0
                       THEN [heap EXCEPT ![ref] = add_message(@, role, c, "None", now)]
                       ELSE heap
            /\ Log("add_" \o role \o "_message", sid, IF ref # 0 THEN 1 ELSE 0)
            /\ UNCHANGED <<now, sessions, server_vars, tool_vars>>

\* session.add_message on a session object the caller holds, in the store or
\* already removed from it.
SessionAddMessage ==
    \E ref \in Refs, role \in {"user", "assistant"}, c \in Contents :
        /\ heap' = [heap EXCEPT ![ref] = add_message(@, role, c, "None", now)]
        /\ Log("add_message", heap[ref].session_id, ref)
        /\ UNCHANGED <<now, sessions, server_vars, tool_vars>>

UpdateSessionContext ==
    \E sid \in ClientIds, a \in Analyses :
        LET ref == get_session(sid)
        IN  /\ heap' = IF ref # 0
                       THEN [heap EXCEPT ![ref] = update_context(
                                @, a.context_summary, a.topics, a.sentiment, now)]
                       ELSE heap
            /\ Log("update_session_context", sid, IF ref # 0 THEN 1 ELSE 0)
            /\ UNCHANGED <<now, sessions, server_vars, tool_vars>>

DeleteSession ==
    \E sid \in ClientIds :
        /\ sessions' = DictDel(sessions, {sid})
        /\ Log("delete_session", sid, IF sid \in DOMAIN sessions THEN 1 ELSE 0)
        /\ UNCHANGED <<now, heap, server_vars, tool_vars>>

CleanupOldSessions ==
    \E h \in Ages :
        /\ sessions' = DictDel(sessions, expired_sessions(h))
        /\ Log("cleanup_old_sessions", h, Cardinality(expired_sessions(h)))
        /\ UNCHANGED <<now, heap, server_vars, tool_vars>>

InitStoreVars ==
    /\ now = 0
    /\ heap = <<>>
    /\ sessions = EmptyDict
    /\ last_call = NoCall
    /\ prev_call = NoCall
    /\ calls = 0

\* ------------------------------------------------------------ AI service
\* The requests of one run: two handlers that may be in flight together, at
\* most one of them a streaming request.
Reqs == {1, 2}

\* _config_cache = None
NoConfig == [use_mock_ai |-> FALSE, openai_deployment_name |-> "None"]

\* get_configuration(): the bundle read from the environment.
get_configuration ==
    [use_mock_ai |-> env.use_mock_ai, openai_deployment_name |-> "gpt-4-1"]

\* ai_service = None
NoService == [use_mock |-> FALSE, deployment_name |-> "None"]

\* AIService(config)
AIService(config) ==
    [use_mock |-> config.use_mock_ai, deployment_name |-> config.openai_deployment_name]

\* get_ai_service(config): the global instance, constructed on first use.
get_ai_service(config) ==
    IF ai_service = NoService THEN AIService(config) ELSE ai_service

\* AIResponse(content=, model_used=, tokens_used=, response_time=, conversation_id=)
AIResponse(content, model_used, tokens_used) ==
    [content |-> content, model_used |-> model_used, tokens_used |-> tokens_used,
     response_time |-> "elapsed", conversation_id |-> "None"]

\* mock_responses[len(user_message) % len(mock_responses)]: three templates
\* that quote the user message and one fixed sentence.
mock_responses(user_message) ==
    <<<<"m0">> \o user_message, <<"m1">> \o user_message,
      <<"m2">> \o user_message, <<"m3">>>>

MockAIResponse(user_message) ==
    LET response_content ==
            mock_responses(user_message)[(Len(user_message) % 4) + 1]
    IN  AIResponse(response_content, "mock-gpt-4.1", Len(response_content))

\* What the completion API can answer: no choices, a choice without content,
\* a choice with text.
Completions == {[choices |-> 0, content |-> <<>>],
                [choices |-> 1, content |-> <<>>],
                [choices |-> 1, content |-> <<"x">>]}

\* response.choices[0].message.content or the fallback sentence
RealAIResponse(svc, completion) ==
    LET ai_content ==
            IF completion.choices > 0 /\ completion.content # <<>>
            THEN completion.content ELSE <<"no-response">>
    IN  AIResponse(ai_content, svc.deployment_name, "total")

\* getattr(obj, name): AttributeError when the object has no such field.
HasAttr(obj, name) == name \in DOMAIN obj

\* str.split(): the maximal runs of non-whitespace characters.
RECURSIVE SplitFrom(_, _, _)
SplitFrom(text, i, word) ==
    IF i > Len(text)
    THEN IF word = <<>> THEN <<>> ELSE <<word>>
    ELSE IF text[i] = " "
         THEN (IF word = <<>> THEN <<>> ELSE <<word>>) \o SplitFrom(text, i + 1, <<>>)
         ELSE SplitFrom(text, i + 1, Append(word, text[i]))

Split(text) == SplitFrom(text, 1, <<>>)

\* The canned streaming sentence with the user message quoted inside.
mock_response(user_message) == <<"P">> \o user_message \o <<"S">>

\* f"data: {json.dumps(d)}\n\n"
SSE(d) == [prefix |-> "data: ", json |-> d]

DoneLine == SSE([done |-> TRUE])

ErrorLine(e) == SSE([error |-> <<"apology">> \o e])

ContentLine(c) == SSE([content |-> c])

\* Deltas of the upstream stream: with text, with empty text, without content.
Deltas == {[has |-> TRUE, content |-> <<"x">>],
           [has |-> TRUE, content |-> <<>>],
           [has |-> FALSE, content |-> <<>>]}

\* ---------------------------------------------------------------- requests
IdleReq ==
    [pc |-> "idle", kind |-> "none", message |-> <<>>, session_id |-> NoneId,
     session |-> 0, status |-> 0, response |-> [none |-> TRUE],
     generated |-> "no", gen |-> "none", words |-> <<>>, deltas |-> <<>>,
     lines |-> <<>>, body |-> <<>>, full_response |-> <<>>, exc |-> "none"]

\* Session ids a request can carry: none, or any id the store has issued
\* (still stored or deleted since).
RequestIds == {NoneId} \cup (1..Len(heap))

\* Stream requests that have arrived.
Streams == Cardinality({r \in Reqs : req[r].kind = "stream"})

\* ChatResponse(response=, session_id=, ai_model=, tokens_used=, response_time=)
ChatResponse(ai_response, session) ==
    [response |-> ai_response.content, session_id |-> session.session_id,
     ai_model |-> ai_response.ai_model, tokens_used |-> ai_response.tokens_used,
     response_time |-> ai_response.response_time]

\* get_cached_config() followed by get_ai_service(). Nothing get_configuration
\* awaits suspends: get_key_vault_service and get_secret are coroutines
\* without a suspension point and the SecretClient they call is the blocking
\* one, so the test of the cache and its assignment run without another
\* coroutine in between.
AfterConfig_reload(r, kind) ==
    /\ config_loads' = config_loads + 1
    /\ config_cache' = get_configuration
    /\ ai_service' = get_ai_service(get_configuration)

AfterConfig(r, kind) ==
    IF config_cache # NoConfig
    THEN /\ ai_service' = get_ai_service(config_cache)
         /\ UNCHANGED <<config_cache, config_loads>>
    ELSE /\ config_loads' = config_loads + 1
         /\ config_cache' = get_configuration
         /\ ai_service' = get_ai_service(get_configuration)

PcAfterConfig(kind) == IF kind = "chat" THEN "generating" ELSE "opened"

\* POST /ai/chat and POST /ai/chat/stream, from the start of the handler to
\* its first suspension: get_or_create_session, add the user message, fetch
\* the configuration.
RequestStart(r) ==
    /\ req[r].pc = "idle"
    /\ \E kind \in {"chat", "stream"}, message \in Contents, sid \in RequestIds :
        LET g == get_or_create_session(sid, "None")
        IN  /\ kind = "stream" => Streams = 0
            /\ heap' = [g.heap EXCEPT ![g.ref] = add_message(@, "user", message, "None", now)]
            /\ sessions' = g.sessions
            /\ AfterConfig(r, kind)
            /\ req' = [req EXCEPT ![r] =
                    [@ EXCEPT !.kind = kind, !.message = message, !.session_id = sid,
                              !.session = g.ref,
                              !.pc = PcAfterConfig(kind)]]
    /\ UNCHANGED <<now, last_call, prev_call, calls, env, background_tasks, tool_vars>>

\* The rest of chat_with_ai once generate_response has returned `ai_response`:
\* append the assistant message, schedule the analysis, build the response.
\* Reading a field AIResponse does not have raises, and the handler's except
\* turns that into a 500.
ChatAfterGeneration(r, ai_response) ==
    LET ref == req[r].session
    IN  IF HasAttr(ai_response, "ai_model")
        THEN /\ heap' = [heap EXCEPT ![ref] = add_message(@, "assistant",
                            ai_response.content, "metadata", now)]
             /\ background_tasks' = Append(background_tasks, heap[ref].session_id)
             /\ req' = [req EXCEPT ![r] =
                    [@ EXCEPT !.pc = "done", !.status = 200, !.generated = "yes",
                              !.response = ChatResponse(ai_response, heap[ref])]]
        ELSE /\ req' = [req EXCEPT ![r] =
                    [@ EXCEPT !.pc = "done", !.status = 500, !.generated = "yes"]]
             /\ UNCHANGED <<heap, background_tasks>>

\* generate_response returns (mock: the canned answer after the sleep; real:
\* what the completion API answered) and the handler runs to its end.
ChatGenerated(r) ==
    /\ req[r].pc = "generating"
    /\ IF ai_service.use_mock
       THEN ChatAfterGeneration(r, MockAIResponse(req[r].message))
       ELSE \E completion \in Completions :
               ChatAfterGeneration(r, RealAIResponse(ai_service, completion))
    /\ UNCHANGED <<now, sessions, last_call, prev_call, calls, env, config_cache,
                   config_loads, ai_service, tool_vars>>

ChatGenerationFailed_rollback(r) ==
    /\ req[r].pc = "generating"
    /\ ~ai_service.use_mock
    /\ req' = [req EXCEPT ![r] = [@ EXCEPT !.pc = "done", !.status = 500,
                                           !.generated = "failed"]]
    /\ sessions' = DictDel(sessions, {heap[req[r].session].session_id})
    /\ UNCHANGED <<now, heap, last_call, prev_call, calls, env, config_cache,
                   config_loads, ai_service, background_tasks, tool_vars>>

\* generate_response raises (the completion call failed): 500.
ChatGenerationFailed(r) ==
    /\ req[r].pc = "generating"
    /\ ~ai_service.use_mock
    /\ req' = [req EXCEPT ![r] = [@ EXCEPT !.pc = "done", !.status = 500,
                                           !.generated = "failed"]]
    /\ UNCHANGED <<store_vars, env, config_cache, config_loads, ai_service,
                   background_tasks, tool_vars>>

\* ------------------------------------------- generate_streaming_response
NoneDelta == [has |-> FALSE, content |-> <<>>]

Nones(n) == [i \in 1..n |-> NoneDelta]

Yield(line, gen, words, deltas) ==
    [line |-> line, gen |-> gen, words |-> words, deltas |-> deltas]

\* The generator in mock mode runs to its next yield: one word and a space
\* per line, then the done line.
MockYields(q) ==
    LET words == IF q.gen = "start" THEN Split(mock_response(q.message)) ELSE q.words
    IN  IF words = <<>>
        THEN {Yield(DoneLine, "finished", <<>>, q.deltas)}
        ELSE {Yield(ContentLine(Append(Head(words), " ")), "mock", Tail(words), q.deltas)}

\* The generator against the completion API runs to its next yield: deltas
\* without content are passed over, a delta with content gives a content
\* line, the end of the stream gives the done line, and an exception (from
\* the create call or while iterating) gives the error line.
RealYields(q) ==
    LET room == MaxDeltas - Len(q.deltas)
    IN  {Yield(ContentLine(d.content), "open", q.words, q.deltas \o Nones(n) \o <<d>>) :
             n \in 0..(room - 1), d \in {x \in Deltas : x.has}}
        \cup {Yield(DoneLine, "finished", q.words, q.deltas \o Nones(n)) : n \in 0..room}
        \cup {Yield(ErrorLine(<<"E">>), "failed", q.words, q.deltas \o Nones(n)) :
                  n \in 0..room}

FailedYields_again(q) == {Yield(ErrorLine(<<"E">>), "finished", q.words, q.deltas)}

\* After the error line the except block yields the done line.
FailedYields(q) == {Yield(DoneLine, "finished", q.words, q.deltas)}

generate_streaming_response(q) ==
    IF q.gen = "failed" THEN FailedYields(q)
    ELSE IF ai_service.use_mock THEN MockYields(q)
    ELSE RealYields(q)

\* ------------------------------------------------------- generate_stream
Event(type, key, value) ==
    IF key = "session_id" THEN [type |-> type, session_id |-> value]
    ELSE IF key = "content" THEN [type |-> type, content |-> value]
    ELSE IF key = "full_response" THEN [type |-> type, full_response |-> value]
    ELSE IF key = "error" THEN [type |-> type, error |-> value]
    ELSE [type |-> type, message |-> value]

HandleChunk_silent(q, chunk) ==
    IF chunk.prefix = "data: " /\ "content" \in DOMAIN chunk.json
    THEN [q EXCEPT !.full_response = @ \o chunk.json.content]
    ELSE q

\* The body of the `async for` for one chunk: a line that starts with
\* "data: " is parsed; a content key is accumulated and forwarded; a done
\* key is passed over; any other key matches no branch.
HandleChunk(q, chunk) ==
    IF chunk.prefix = "data: "
    THEN LET chunk_data == chunk.json
         IN  IF "content" \in DOMAIN chunk_data
             THEN [q EXCEPT !.full_response = @ \o chunk_data.content,
                            !.body = Append(@, Event("content", "content",
                                                     chunk_data.content))]
             ELSE q
    ELSE q

\* The streaming response starts: the session event is sent.
StreamOpen(r) ==
    /\ req[r].pc = "opened"
    /\ req' = [req EXCEPT ![r] =
            [@ EXCEPT !.pc = "streaming", !.status = 200, !.gen = "start",
                      !.body = <<Event("session", "session_id",
                                       heap[req[r].session].session_id)>>]]
    /\ UNCHANGED <<store_vars, env, config_cache, config_loads, ai_service,
                   background_tasks, tool_vars>>

\* The service yields its next line and the loop body handles it.
StreamItem(r) ==
    /\ req[r].pc = "streaming"
    /\ req[r].gen # "finished"
    /\ \E y \in generate_streaming_response(req[r]) :
          req' = [req EXCEPT ![r] =
                    HandleChunk([@ EXCEPT !.gen = y.gen, !.words = y.words,
                                          !.deltas = y.deltas,
                                          !.lines = Append(@, y.line)], y.line)]
    /\ UNCHANGED <<store_vars, env, config_cache, config_loads, ai_service,
                   background_tasks, tool_vars>>

\* The service generator is exhausted: the accumulated text is appended as
\* the assistant message and the complete event is sent.
StreamFinish(r) ==
    /\ req[r].pc = "streaming"
    /\ req[r].gen = "finished"
    /\ heap' = [heap EXCEPT ![req[r].session] =
                    add_message(@, "assistant", req[r].full_response, "None", now)]
    /\ req' = [req EXCEPT ![r] =
            [@ EXCEPT !.pc = "done",
                      !.body = Append(@, Event("complete", "full_response",
                                               req[r].full_response))]]
    /\ UNCHANGED <<now, sessions, last_call, prev_call, calls, env, config_cache,
                   config_loads, ai_service, background_tasks, tool_vars>>

\* An exception is raised inside generate_stream's try block: the except
\* block sends the two error events and the body ends.
StreamRouteError(r) ==
    /\ req[r].pc = "streaming"
    /\ req' = [req EXCEPT ![r] =
            [@ EXCEPT !.pc = "done", !.exc = "raised",
                      !.body = @ \o <<Event("error", "error", <<"E">>),
                                      Event("error", "message", <<"E">>)>>]]
    /\ UNCHANGED <<store_vars, env, config_cache, config_loads, ai_service,
                   background_tasks, tool_vars>>

\* ------------------------------------------------------------ the server
IdleChunker == [pc |-> "none"]

IdleRag == [pc |-> "none"]

IdleSpeech == [pc |-> "none"]

IdleIndexer == [pc |-> "none"]

IdleSearch == [pc |-> "none"]

IdleAudio == [pc |-> "none"]

IdleUpdater == [pc |-> "none"]

IdleTask == [pc |-> "none"]

IdleServer ==
    /\ config_cache = NoConfig
    /\ config_loads = 0
    /\ ai_service = NoService
    /\ background_tasks = <<>>
    /\ req = [r \in Reqs |-> IdleReq]

Init ==
    /\ InitStoreVars
    /\ env \in [use_mock_ai : BOOLEAN, use_key_vault : BOOLEAN]
    /\ IdleServer
    /\ chunker = IdleChunker
    /\ rag = IdleRag
    /\ speech = IdleSpeech
    /\ indexer = IdleIndexer
    /\ search = IdleSearch
    /\ audio = IdleAudio
    /\ updater = IdleUpdater
    /\ task = IdleTask

\* DELETE /ai/conversations/{session_id}
DeleteConversation ==
    /\ calls < MaxAdmin
    /\ \E sid \in RequestIds \ {NoneId} : sessions' = DictDel(sessions, {sid})
    /\ calls' = calls + 1
    /\ UNCHANGED <<now, heap, last_call, prev_call, server_vars, tool_vars>>

\* POST /ai/conversations/cleanup
CleanupOldConversations ==
    /\ calls < MaxAdmin
    /\ \E h \in Ages : sessions' = DictDel(sessions, expired_sessions(h))
    /\ calls' = calls + 1
    /\ UNCHANGED <<now, heap, last_call, prev_call, server_vars, tool_vars>>

\* Time passes while requests are served.
ClockTick ==
    /\ calls < MaxAdmin
    /\ Tick

\* Requests are interchangeable: the next one to arrive takes the next slot.
Arrives(r) == IF r = 1 THEN TRUE ELSE req[r - 1].pc # "idle"

Next ==
    \/ \E r \in Reqs : Arrives(r) /\ RequestStart(r)
    \/ \E r \in Reqs : ChatGenerated(r)
    \/ \E r \in Reqs : ChatGenerationFailed(r)
    \/ \E r \in Reqs : StreamOpen(r)
    \/ \E r \in Reqs : StreamItem(r)
    \/ \E r \in Reqs : StreamFinish(r)
    \/ \E r \in Reqs : StreamRouteError(r)
    \/ DeleteConversation
    \/ CleanupOldConversations
    \/ ClockTick

Spec == Init /\ [][Next]_vars

\* ------------------------------------------- the store used as a library
InitStore ==
    /\ InitStoreVars
    /\ env = [use_mock_ai |-> TRUE, use_key_vault |-> FALSE]
    /\ IdleServer
    /\ chunker = IdleChunker
    /\ rag = IdleRag
    /\ speech = IdleSpeech
    /\ indexer = IdleIndexer
    /\ search = IdleSearch
    /\ audio = IdleAudio
    /\ updater = IdleUpdater
    /\ task = IdleTask

NextStore ==
    \/ Tick
    \/ CreateSession
    \/ GetOrCreateSession
    \/ AddMessageById
    \/ SessionAddMessage
    \/ UpdateSessionContext
    \/ DeleteSession
    \/ CleanupOldSessions

SpecStore == InitStore /\ [][NextStore]_vars

\* ------------------------------------------------------------ claims C6-C8
StoreCallStep == calls' = calls + 1 /\ now' = now

IsPrefix(a, b) == Len(a) <= Len(b) /\ SubSeq(b, 1, Len(a)) = a

\* The session a call named by `c` acted on: add_message names the object,
\* the manager's methods name its key.
TargetOf(c) ==
    IF c.op = "add_message" THEN c.ret
    ELSE IF c.known THEN sessions[c.arg] ELSE 0

TouchOps == {"add_message", "add_user_message", "add_assistant_message",
             "update_session_context"}

Limits == {1, 2, 10}

C6_Step ==
    /\ \A r \in Refs :
        /\ IsPrefix(heap[r].messages, heap'[r].messages)
        /\ heap'[r].updated_at >= heap[r].updated_at
        /\ heap'[r].created_at = heap[r].created_at
    /\ (StoreCallStep /\ last_call'.op \in TouchOps /\ TargetOf(last_call') # 0) =>
          /\ heap'[TargetOf(last_call')].updated_at = now
          /\ last_call'.op # "update_session_context" =>
                Len(heap'[TargetOf(last_call')].messages)
                    = Len(heap[TargetOf(last_call')].messages) + 1

C6_State ==
    \A r \in Refs :
        /\ heap[r].updated_at >= heap[r].created_at
        /\ \A limit \in Limits :
              LET m == heap[r].messages
                  got == get_recent_messages(heap[r], limit)
              IN  /\ Len(got) = Min(limit, Len(m))
                  /\ \A i \in 1..Len(got) : got[i] = m[Len(m) - Len(got) + i]

\* C6: in every session the messages list is append-only (a message keeps
\* its position and content, get_recent_messages returns the latest ones in
\* append order), every add_message and update_context call sets updated_at
\* to the time of the call, so updated_at never decreases and is never
\* earlier than created_at.
C6_Theorem == [](C6_State) /\ [][C6_Step]_vars

\* Two messages were appended to one session and its context was updated
\* at a later time.
C6_Witness ==
    \E r \in Refs :
        /\ Len(heap[r].messages) >= 2
        /\ heap[r].messages[1].content # heap[r].messages[2].content
        /\ heap[r].context_summary # "None"
        /\ heap[r].updated_at > heap[r].created_at

C7_Case ==
    /\ prev_call.op = "get_or_create_session"
    /\ ~prev_call.known
    /\ last_call.op = "get_or_create_session"
    /\ last_call.arg = heap[prev_call.ret].session_id

\* C7: get_or_create_session with an unknown id, then again with the id of
\* the session the first call returned: both calls return the same session
\* and the store holds exactly one session more than before the first call.
C7_Theorem ==
    C7_Case =>
        /\ last_call.ret = prev_call.ret
        /\ Cardinality(DOMAIN sessions) = prev_call.before + 1

\* The two calls were made, the first with an id the store never issued,
\* on a store that already held a session.
C7_Witness == C7_Case /\ prev_call.arg = GhostId /\ prev_call.before >= 1

C8_Step ==
    (StoreCallStep /\ last_call'.op = "cleanup_old_sessions") =>
        LET h == last_call'.arg
            old == {k \in DOMAIN sessions : heap[sessions[k]].updated_at < now - h}
        IN  /\ DOMAIN sessions' = (DOMAIN sessions) \ old
            /\ \A k \in DOMAIN sessions' : sessions'[k] = sessions[k]
            /\ heap' = heap
            /\ last_call'.ret = Cardinality(old)

\* C8: cleanup_old_sessions(h) removes exactly the sessions whose updated_at
\* is strictly older than now - h hours, leaves every other session in the
\* store unchanged, and returns the number of sessions it removed.
C8_Theorem == [][C8_Step]_vars

\* A cleanup removed a session and kept one whose updated_at was exactly
\* now - h at the time of the call.
C8_Witness ==
    /\ last_call.op = "cleanup_old_sessions"
    /\ last_call.ret >= 1
    /\ \E k \in DOMAIN sessions :
          heap[sessions[k]].updated_at = last_call.at - last_call.arg

\* ------------------------------------------------------------ claims C1-C5
Done(r, kind) == req[r].pc = "done" /\ req[r].kind = kind

UserMessage(r) == ConversationMessage("user", req[r].message, "None", 0)

SameMessage(m, role, content) == m.role = role /\ m.content = content

\* A mock-mode chat request without a session id has finished, alone.
C1_Case ==
    /\ env.use_mock_ai
    /\ Done(1, "chat")
    /\ req[1].session_id = NoneId
    /\ req[2].pc = "idle"
    /\ calls = 0

\* C1: POST /ai/chat with a message and no session id under mock mode
\* answers 200 with a non-empty response, a fresh session_id and ai_model
\* "mock-gpt-4.1", and the session then holds exactly the user message
\* followed by the assistant message.
C1_Claim ==
    C1_Case =>
        /\ req[1].status = 200
        /\ req[1].response.response # <<>>
        /\ req[1].response.ai_model = "mock-gpt-4.1"
        /\ req[1].response.session_id \in DOMAIN sessions
        /\ LET m == heap[sessions[req[1].response.session_id]].messages
           IN  /\ Len(m) = 2
               /\ SameMessage(m[1], "user", req[1].message)
               /\ SameMessage(m[2], "assistant", req[1].response.response)

\* C2: in one POST /ai/chat the user message is in the session before
\* generate_response is invoked, and once generation has succeeded and the
\* request has finished, the assistant message is in the same session after
\* the user message.
C2_Claim ==
    \A r \in Reqs :
        /\ (req[r].kind = "chat" /\ req[r].pc \in {"generating", "done"}) =>
              \E i \in 1..Len(heap[req[r].session].messages) :
                  SameMessage(heap[req[r].session].messages[i], "user", req[r].message)
        /\ (Done(r, "chat") /\ req[r].generated = "yes") =>
              \E i, j \in 1..Len(heap[req[r].session].messages) :
                  /\ i < j
                  /\ SameMessage(heap[req[r].session].messages[i], "user", req[r].message)
                  /\ heap[req[r].session].messages[j].role = "assistant"

EventsOfType(body, type) == SelectSeq(body, LAMBDA e : e.type = type)

IsErrorLine(line) == "error" \in DOMAIN line.json

IsDoneLine(line) == "done" \in DOMAIN line.json

IsContentLine(line) == "content" \in DOMAIN line.json

\* A failure happened while the response was streamed: the service reported
\* one, or the route raised.
StreamFailed(r) ==
    \/ req[r].exc = "raised"
    \/ \E i \in 1..Len(req[r].lines) : IsErrorLine(req[r].lines[i])

\* C3: a failure while the response is streamed, a failure reported by the
\* AI service included, reaches the client as two events of type error, one
\* keyed `error` and one keyed `message` with the same text, and the stream
\* carries no complete event.
C3_Claim ==
    \A r \in Reqs :
        (Done(r, "stream") /\ StreamFailed(r)) =>
            LET errors == EventsOfType(req[r].body, "error")
            IN  /\ Len(errors) = 2
                /\ "error" \in DOMAIN errors[1]
                /\ "message" \in DOMAIN errors[2]
                /\ errors[1].error = errors[2].message
                /\ EventsOfType(req[r].body, "complete") = <<>>

RECURSIVE Concat(_)
Concat(seqs) == IF seqs = <<>> THEN <<>> ELSE Head(seqs) \o Concat(Tail(seqs))

\* The text of every content delta the upstream has delivered to the
\* service so far, in order: the words of the canned sentence in mock mode,
\* the deltas whose content is not None otherwise.
UpstreamContents(r) ==
    IF req[r].gen \in {"none", "start"} THEN <<>>
    ELSE IF ai_service.use_mock
    THEN LET words == Split(mock_response(req[r].message))
         IN  [i \in 1..(Len(words) - Len(req[r].words)) |-> Append(words[i], " ")]
    ELSE LET with_content == SelectSeq(req[r].deltas, LAMBDA d : d.has)
         IN  [i \in 1..Len(with_content) |-> with_content[i].content]

EventContents(body) ==
    LET events == EventsOfType(body, "content")
    IN  [i \in 1..Len(events) |-> events[i].content]

C4_Body(r) ==
    LET body == req[r].body
        contents == EventContents(body)
        rest == SubSeq(body, 2 + Len(contents), Len(body))
        messages == heap[req[r].session].messages
    IN  /\ body[1] = [type |-> "session", session_id |-> heap[req[r].session].session_id]
        /\ Len(EventsOfType(body, "session")) = 1
        /\ contents = UpstreamContents(r)
        /\ \A i \in 1..Len(contents) : body[1 + i].type = "content"
        /\ IF req[r].pc = "done" /\ req[r].exc = "none"
           THEN rest = <<[type |-> "complete", full_response |-> Concat(contents)]>>
           ELSE EventsOfType(rest, "complete") = <<>>
        /\ EventsOfType(body, "complete") # <<>> =>
              \E j \in 1..Len(messages) :
                  SameMessage(messages[j], "assistant", Concat(contents))

\* C4: every body of POST /ai/chat/stream starts with exactly one session
\* event, then carries one content event per upstream content delta in
\* upstream order; when no exception occurred it ends with exactly one
\* complete event, present only once the assistant message is in the
\* session, whose full_response is the concatenation of the content events
\* and the content of that assistant message.
C4_Theorem ==
    \A r \in Reqs : req[r].body # <<>> => C4_Body(r)

\* A stream against the real upstream has completed after a delta without
\* content and two deltas with content.
C4_Witness ==
    \E r \in Reqs :
        /\ Done(r, "stream")
        /\ req[r].exc = "none"
        /\ ~ai_service.use_mock
        /\ Len(EventContents(req[r].body)) = 2
        /\ \E i \in 1..Len(req[r].deltas) : ~req[r].deltas[i].has

C5_State ==
    \A r \in Reqs :
        LET lines == req[r].lines
            n == Len(lines)
        IN  /\ \A i \in 1..n : IsDoneLine(lines[i]) => i = n
            /\ req[r].gen = "finished" => (n > 0 /\ lines[n] = DoneLine)
            /\ req[r].gen = "failed" => (n > 0 /\ IsErrorLine(lines[n]))
            /\ \A i \in 1..n : IsErrorLine(lines[i]) =>
                  /\ \A j \in 1..n : IsErrorLine(lines[j]) => j = i
                  /\ \A j \in (i + 1)..n : ~IsContentLine(lines[j])
                  /\ i < n => (i + 1 = n /\ lines[n] = DoneLine)

C5_Step ==
    \A r \in Reqs :
        (req[r].gen = "failed" /\ req'[r] # req[r] /\ req'[r].pc = "streaming") =>
            /\ req'[r].gen = "finished"
            /\ req'[r].lines = Append(req[r].lines, DoneLine)

\* C5: every sequence generate_streaming_response yields to its end has
\* exactly one done line, as its last item; on an upstream failure exactly
\* one error line is yielded, immediately before the done line, and no
\* content line follows the error line.
C5_Theorem == [](C5_State) /\ [][C5_Step]_vars

\* The upstream failed after a content delta and the generator has ended.
C5_Witness ==
    \E r \in Reqs :
        /\ req[r].gen = "finished"
        /\ Len(req[r].lines) = 3
        /\ IsContentLine(req[r].lines[1])
        /\ IsErrorLine(req[r].lines[2])

\* ------------------------------------------------------------ the chunkers
\* Python's normalisation of a slice index against a sequence of length n.
PyIndex(i, n) == IF i < 0 THEN Max(0, n + i) ELSE Min(i, n)

\* text[start:end]
Slice(text, start, end) ==
    SubSeq(text, PyIndex(start, Len(text)) + 1, PyIndex(end, Len(text)))

\* The 0-based positions text[start:end] takes its characters from.
SlicePositions(text, start, end) ==
    PyIndex(start, Len(text))..(PyIndex(end, Len(text)) - 1)

SetMax(S) == CHOOSE x \in S : \A y \in S : y <= x

SetMin(S) == CHOOSE x \in S : \A y \in S : x <= y

\* text.rfind(ch, start, end)
rfind(text, ch, start, end) ==
    LET at == {i \in SlicePositions(text, start, end) : text[i + 1] = ch}
    IN  IF at = {} THEN 0 - 1 ELSE SetMax(at)

\* text.find(ch, start, end)
find(text, ch, start, end) ==
    LET at == {i \in SlicePositions(text, start, end) : text[i + 1] = ch}
    IN  IF at = {} THEN 0 - 1 ELSE SetMin(at)

Whitespace == {" ", "\n", "\t"}

\* text.strip()
strip(text) ==
    LET inked == {i \in 1..Len(text) : text[i] \notin Whitespace}
    IN  IF inked = {} THEN <<>> ELSE SubSeq(text, SetMin(inked), SetMax(inked))

\* The characters _split_into_chunks accepts as a chunk boundary. The list
\* in the source also holds the two-character strings backslash-n and
\* backslash-t, which no single character equals.
BreakChars == {" ", "U+3002", "U+FF0E", "U+FF01", "U+FF1F"}

\* Half-width of the window create_document_chunks searches around the
\* tentative end.
FindWindow == 100

Chunkers == {"chunk_text", "_split_into_chunks", "create_document_chunks"}

\* The characters each chunker tells apart, and one it does not. A character
\* outside ASCII is written as its code point: "U+3002" is the ideographic
\* full stop.
Alphabet(fn) ==
    IF fn = "chunk_text" THEN {"a", ".", " "}
    ELSE IF fn = "_split_into_chunks" THEN {"a", " ", "U+3002", "\n"}
    ELSE {"a", "U+3002", "\n"}

Texts(fn) == UNION {[1..n -> Alphabet(fn)] : n \in 0..MaxText}

\* The locals of a chunker call on entry: start = 0, chunks = [].
ChunkerCall(fn, text, chunk_size, overlap) ==
    [pc |-> "loop", fn |-> fn, text |-> text, chunk_size |-> chunk_size,
     overlap |-> overlap, start |-> 0, end |-> 0, chunks |-> <<>>,
     iterations |-> 0]

\* The end of the slice chunk_text takes at `start`.
chunk_text_end(text, start, chunk_size) ==
    LET end == start + chunk_size
        last_sentence == rfind(text, ".", start, end)
    IN  IF end < Len(text) /\ last_sentence # 0 - 1 /\ last_sentence > start
        THEN last_sentence + 1
        ELSE end

\* The inner while of _split_into_chunks: back up from `end` to a boundary
\* character, stopping at `start`.
RECURSIVE back_up(_, _, _)
back_up(text, start, end) ==
    IF end > start /\ text[end + 1] \notin BreakChars
    THEN back_up(text, start, end - 1)
    ELSE end

\* The end of the slice _split_into_chunks takes at `start`.
split_into_chunks_end(text, start, chunk_size) ==
    LET end == start + chunk_size
    IN  IF end < Len(text)
        THEN IF back_up(text, start, end) <= start THEN end
             ELSE back_up(text, start, end)
        ELSE end

\* The end of the slice create_document_chunks takes at `start`.
create_document_chunks_end(content, start, chunk_size) ==
    LET end == start + chunk_size
        next_period == find(content, "U+3002", end - FindWindow, end + FindWindow)
        next_newline == find(content, "\n", end - FindWindow, end + FindWindow)
    IN  IF end < Len(content)
        THEN IF next_period # 0 - 1 /\ (next_newline = 0 - 1 \/ next_period < next_newline)
             THEN next_period + 1
             ELSE IF next_newline # 0 - 1 THEN next_newline + 1
             ELSE end
        ELSE Len(content)

\* chunk = text[start:end].strip(); if chunk: chunks.append(chunk)
append_chunk(chunks, text, start, end) ==
    IF strip(Slice(text, start, end)) # <<>>
    THEN Append(chunks, [content |-> strip(Slice(text, start, end)),
                         start_pos |-> start, end_pos |-> end])
    ELSE chunks

\* start = end - self.chunk_overlap
chunk_text_next(start, end, overlap) == end - overlap

\* start = max(start + 1, end - overlap)
guarded_next(start, end, overlap) == Max(start + 1, end - overlap)

\* One iteration of a chunker's loop with slice end `end` and next cursor
\* `next`.
Iterate(end, next) ==
    /\ chunker.pc = "loop"
    /\ chunker.start < Len(chunker.text)
    /\ chunker.iterations < MaxIterations
    /\ chunker' = [chunker EXCEPT
            !.end = end,
            !.chunks = append_chunk(@, chunker.text, chunker.start, end),
            !.start = next,
            !.iterations = @ + 1]
    /\ UNCHANGED <<store_vars, server_vars, rag, speech, indexer, search, audio, updater, task>>

\* AzureRAGService.chunk_text, one iteration.
ChunkText ==
    /\ chunker.fn = "chunk_text"
    /\ LET end == chunk_text_end(chunker.text, chunker.start, chunker.chunk_size)
       IN  Iterate(end, chunk_text_next(chunker.start, end, chunker.overlap))

\* DocumentProcessor._split_into_chunks, one iteration.
SplitIntoChunks ==
    /\ chunker.fn = "_split_into_chunks"
    /\ LET end == split_into_chunks_end(chunker.text, chunker.start, chunker.chunk_size)
       IN  Iterate(end, guarded_next(chunker.start, end, chunker.overlap))

\* DocumentService.create_document_chunks, one iteration.
CreateDocumentChunks ==
    /\ chunker.fn = "create_document_chunks"
    /\ LET end == create_document_chunks_end(chunker.text, chunker.start,
                                             chunker.chunk_size)
       IN  Iterate(end, guarded_next(chunker.start, end, chunker.overlap))

\* The loop condition fails and the chunker returns its chunks.
ChunkerReturn ==
    /\ chunker.pc = "loop"
    /\ chunker.start >= Len(chunker.text)
    /\ chunker' = [chunker EXCEPT !.pc = "done"]
    /\ UNCHANGED <<store_vars, server_vars, rag, speech, indexer, search, audio, updater, task>>

InitChunk ==
    /\ InitStoreVars
    /\ env = [use_mock_ai |-> TRUE, use_key_vault |-> FALSE]
    /\ IdleServer
    /\ \E fn \in Chunkers :
           chunker \in {ChunkerCall(fn, text, chunk_size, overlap) :
                            text \in Texts(fn), chunk_size \in 1..MaxChunkSize,
                            overlap \in 0..MaxOverlap}
    /\ rag = IdleRag
    /\ speech = IdleSpeech
    /\ indexer = IdleIndexer
    /\ search = IdleSearch
    /\ audio = IdleAudio
    /\ updater = IdleUpdater
    /\ task = IdleTask

NextChunk ==
    \/ ChunkText
    \/ SplitIntoChunks
    \/ CreateDocumentChunks
    \/ ChunkerReturn

SpecChunk == InitChunk /\ [][NextChunk]_vars

\* ----------------------------------------------------------- claims C9-C10
\* C9: in each of the three chunkers the cursor after an iteration is
\* max(start + 1, end - overlap), so every iteration moves it strictly
\* forward, whatever the text, chunk size and overlap.
C9_Claim ==
    [][chunker'.iterations # chunker.iterations =>
          /\ chunker'.start = Max(chunker.start + 1, chunker'.end - chunker.overlap)
          /\ chunker'.start > chunker.start]_vars

\* The 0-based positions of the text some emitted chunk was sliced from.
Covered ==
    UNION {SlicePositions(chunker.text, chunker.chunks[k].start_pos,
                          chunker.chunks[k].end_pos) : k \in 1..Len(chunker.chunks)}

Inked == {i \in 0..(Len(chunker.text) - 1) : chunker.text[i + 1] \notin Whitespace}

\* C10: with overlap < chunk_size the cursor of each chunker never becomes
\* negative, no slice starts past the end of the slice before it, and when
\* the chunker returns every non-whitespace position of the text lies in
\* some chunk.
C10_Claim ==
    (chunker.pc # "none" /\ chunker.overlap < chunker.chunk_size) =>
        /\ chunker.start >= 0
        /\ chunker.start <= chunker.end
        /\ chunker.pc = "done" => Inked \subseteq Covered

\* ------------------------------------------------------------- claim C11
\* ceil(n / d) for d > 0
CeilDiv(n, d) == (n + d - 1) \div d

\* C11: with overlap < chunk_size the loop of each chunker runs at most
\* ceil(len(text) / (chunk_size - overlap)) iterations.
C11_Claim ==
    (chunker.pc # "none" /\ chunker.overlap < chunker.chunk_size) =>
        chunker.iterations <=
            CeilDiv(Len(chunker.text), chunker.chunk_size - chunker.overlap)

\* ------------------------------------------------------- AzureRAGService
\* A storage connection string is absent, names the account
\* (AccountName=...;AccountKey=...), or gives the blob endpoint with a
\* signature and no account name.
ConnectionStrings == {"None", "AccountName", "BlobEndpoint"}

\* The settings the service reads from the environment; for all but the
\* connection string, whether the variable is set.
Environments ==
    [USE_MANAGED_IDENTITY : BOOLEAN,
     AZURE_STORAGE_CONNECTION_STRING : ConnectionStrings,
     AZURE_STORAGE_ACCOUNT_URL : BOOLEAN,
     AZURE_SEARCH_SERVICE_ENDPOINT : BOOLEAN,
     AZURE_SEARCH_API_KEY : BOOLEAN,
     AZURE_OPENAI_ENDPOINT : BOOLEAN,
     AZURE_OPENAI_API_KEY : BOOLEAN]

\* AzureRAGService(): debug_mode from DEBUG, the settings and the credential
\* from the environment; `clients` says whether the blob, search and
\* chat-completion client attributes exist.
AzureRAGService(debug_mode, environ) ==
    [debug_mode |-> debug_mode, environ |-> environ,
     search_endpoint |-> environ.AZURE_SEARCH_SERVICE_ENDPOINT,
     storage_connection_string |-> environ.AZURE_STORAGE_CONNECTION_STRING,
     storage_account_url |-> environ.AZURE_STORAGE_ACCOUNT_URL,
     openai_endpoint |-> environ.AZURE_OPENAI_ENDPOINT,
     credential |-> IF environ.USE_MANAGED_IDENTITY THEN "DefaultAzureCredential"
                    ELSE IF environ.AZURE_SEARCH_API_KEY THEN "AzureKeyCredential"
                    ELSE "None",
     initialized |-> FALSE, clients |-> FALSE]

\* How an operation ends: the service afterwards, what it returned or
\* raised, and the external steps it attempted, in order.
Returned(svc, value, steps) ==
    [svc |-> svc, raised |-> "None", value |-> value, steps |-> steps]

Raised(svc, error, steps) ==
    [svc |-> svc, raised |-> error, value |-> "None", steps |-> steps]

\* The external steps of the service. A step on a client reads the client
\* attribute first.
ClientSteps == {"blob", "index", "write", "search", "chat"}

\* What can go wrong in one operation: nothing, or one of its steps.
Fates == {"none", "blob", "extract", "index", "write", "search", "chat"}

\* The account URL initialize() uses with a managed identity: the configured
\* one, else the one built from the AccountName of the connection string.
account_url(svc) ==
    svc.storage_account_url \/ svc.storage_connection_string = "AccountName"

\* The checks of initialize() outside debug mode, each raising ValueError:
\* the blob client, the search endpoint and credential, the chat-completion
\* endpoint and key.
initialize_raises(svc) ==
    \/ IF svc.environ.USE_MANAGED_IDENTITY THEN ~account_url(svc)
       ELSE svc.storage_connection_string = "None"
    \/ ~svc.search_endpoint
    \/ svc.credential = "None"
    \/ ~svc.openai_endpoint
    \/ ~svc.environ.USE_MANAGED_IDENTITY /\ ~svc.environ.AZURE_OPENAI_API_KEY

\* initialize()
initialize(svc) ==
    IF svc.initialized THEN Returned(svc, "None", <<>>)
    ELSE IF svc.debug_mode
    THEN Returned([svc EXCEPT !.initialized = TRUE], "None", <<>>)
    ELSE IF initialize_raises(svc) THEN Raised(svc, "ValueError", <<>>)
    ELSE Returned([svc EXCEPT !.initialized = TRUE, !.clients = TRUE], "None", <<>>)

\* A call on a client attribute: AttributeError when initialize() never
\* assigned it, the upstream error when the call fails.
UseClient(svc, step, fate, value, steps) ==
    IF ~svc.clients THEN Raised(svc, "AttributeError", Append(steps, step))
    ELSE IF fate = step THEN Raised(svc, "UpstreamError", Append(steps, step))
    ELSE Returned(svc, value, Append(steps, step))

\* upload_document_to_blob(file_path)
upload_document_to_blob(svc, fate) ==
    LET init == initialize(svc)
    IN  IF init.raised # "None" THEN init
        ELSE UseClient(init.svc, "blob", fate, "blob_url", <<>>)

\* create_search_index()
create_search_index(svc, fate) ==
    LET init == initialize(svc)
    IN  IF init.raised # "None" THEN init
        ELSE IF init.svc.debug_mode THEN Returned(init.svc, "None", <<>>)
        ELSE UseClient(init.svc, "index", fate, "None", <<>>)

\* index_document(file_path): upload to blob storage, extract the text,
\* chunk it, write the chunk records to the search index.
index_document(svc, fate) ==
    LET up == upload_document_to_blob(svc, fate)
    IN  IF up.raised # "None" THEN up
        ELSE IF fate = "extract"
        THEN Raised(up.svc, "ExtractError", Append(up.steps, "extract"))
        ELSE UseClient(up.svc, "write", fate, "index_result",
                       Append(up.steps, "extract"))

\* search_documents(query)
search_documents(svc, fate) ==
    LET init == initialize(svc)
    IN  IF init.raised # "None" THEN init
        ELSE IF init.svc.debug_mode THEN Returned(init.svc, "mock_documents", <<>>)
        ELSE UseClient(init.svc, "search", fate, "documents", <<>>)

\* generate_rag_response(query)
generate_rag_response(svc, fate) ==
    LET init == initialize(svc)
    IN  IF init.raised # "None" THEN init
        ELSE IF init.svc.debug_mode THEN Returned(init.svc, "debug_answer", <<>>)
        ELSE LET found == search_documents(init.svc, fate)
             IN  IF found.raised # "None" THEN found
                 ELSE UseClient(found.svc, "chat", fate, "answer", found.steps)

\* is_healthy()
is_healthy(svc) ==
    Returned(svc, IF \/ svc.debug_mode
                     \/ /\ svc.initialized
                        /\ svc.storage_connection_string # "None"
                        /\ svc.search_endpoint
                        /\ svc.openai_endpoint
                  THEN "True" ELSE "False", <<>>)

\* File name suffixes met on disk and in uploads; str.lower() on them.
Suffixes == {".txt", ".PDF", ".csv", ""}

lower(suffix) == IF suffix = ".PDF" THEN ".pdf" ELSE suffix

supported_extensions_csv == {".pdf", ".docx", ".doc", ".txt", ".csv"}

supported_extensions == {".pdf", ".docx", ".doc", ".txt"}

\* What folder.glob('**/*') yields: files with their suffix, and directories.
Entries ==
    [is_file : {TRUE}, suffix : {".txt", ".PDF", ".csv"}]
        \cup {[is_file |-> FALSE, suffix |-> ""]}

Folders == UNION {[1..n -> Entries] : n \in 0..MaxFiles}

\* What goes wrong while one file is indexed.
FileFates == {"none", "blob", "extract", "write"}

NoSummary ==
    [total_files_processed |-> 0, total_files_failed |-> 0,
     files_processed |-> <<>>, files_failed |-> <<>>]

Summary_processed_only(files_processed, files_failed) ==
    [total_files_processed |-> Len(files_processed), total_files_failed |-> 0,
     files_processed |-> files_processed, files_failed |-> <<>>]

\* The summary process_documents_folder builds from its two lists.
Summary(files_processed, files_failed) ==
    [total_files_processed |-> Len(files_processed),
     total_files_failed |-> Len(files_failed),
     files_processed |-> files_processed, files_failed |-> files_failed]

\* process_documents_folder up to its for loop: initialize, the folder must
\* exist, the index is created.
sweep_start(svc, exists, index_fate) ==
    LET init == initialize(svc)
        index == create_search_index(init.svc, index_fate)
    IN  IF init.raised # "None" THEN init
        ELSE IF ~exists THEN Raised(init.svc, "FileNotFoundError", <<>>)
        ELSE index

\* What can go wrong in one upload request: nothing, reading the upload,
\* writing the temporary file, or a step of the service.
UploadFates == Fates \cup {"read", "tmpwrite"}

\* The try block of upload_document: index the temporary file, or upload it
\* only.
upload_try(svc, index_immediately, fate) ==
    IF index_immediately
    THEN LET index == create_search_index(svc, fate)
             result == index_document(index.svc, fate)
         IN  IF index.raised # "None" THEN index
             ELSE [result EXCEPT !.steps = index.steps \o @]
    ELSE upload_document_to_blob(svc, fate)

\* POST /api/azure-rag/upload-document: the extension check, the temporary
\* file, the try block, the unlink in its finally, and the status the
\* handler's except clauses give. `tmp` names the temporary file.
upload_document(svc, disk, tmp, suffix, index_immediately, fate) ==
    LET file_extension == lower(suffix)
        tried == upload_try(svc, index_immediately, fate)
    IN  IF file_extension \notin supported_extensions
        THEN [svc |-> svc, disk |-> disk, status |-> 400, tmp_file |-> 0,
              steps |-> <<>>]
        ELSE IF fate = "read"
        THEN [svc |-> svc, disk |-> disk \cup {tmp}, status |-> 500,
              tmp_file |-> tmp, steps |-> <<"tempfile", "read">>]
        ELSE IF fate = "tmpwrite"
        THEN [svc |-> svc, disk |-> disk \cup {tmp}, status |-> 500,
              tmp_file |-> tmp, steps |-> <<"tempfile", "read", "tmpwrite">>]
        ELSE [svc |-> tried.svc, disk |-> (disk \cup {tmp}) \ {tmp},
              status |-> IF tried.raised = "None" THEN 200 ELSE 500,
              tmp_file |-> tmp,
              steps |-> <<"tempfile", "read", "tmpwrite">> \o tried.steps
                        \o <<"unlink">>]

\* The record of the latest operation on the service.
NoOperation ==
    [op |-> "none", raised |-> "None", value |-> "None", steps |-> <<>>,
     status |-> 0, tmp_file |-> 0, suffix |-> "", exists |-> TRUE,
     folder |-> <<>>, visited |-> 0, attempted |-> <<>>,
     files_processed |-> <<>>, files_failed |-> <<>>, summary |-> NoSummary]

Operation(op, out) ==
    [NoOperation EXCEPT !.op = op, !.raised = out.raised, !.value = out.value,
                        !.steps = out.steps]

\* A service operation `op` ends as `out`.
ServiceCall(op, out) ==
    /\ rag.calls < MaxRagCalls
    /\ rag' = [rag EXCEPT !.svc = out.svc, !.calls = @ + 1,
                          !.last = Operation(op, out)]
    /\ UNCHANGED <<store_vars, server_vars, chunker, speech, indexer, search, audio, updater, task>>

Initialize ==
    /\ rag.pc = "ready"
    /\ ServiceCall("initialize", initialize(rag.svc))

UploadDocumentToBlob ==
    /\ rag.pc = "ready"
    /\ \E fate \in {"none", "blob"} :
        ServiceCall("upload_document_to_blob", upload_document_to_blob(rag.svc, fate))

CreateSearchIndex ==
    /\ rag.pc = "ready"
    /\ \E fate \in {"none", "index"} :
        ServiceCall("create_search_index", create_search_index(rag.svc, fate))

IndexDocument ==
    /\ rag.pc = "ready"
    /\ \E fate \in FileFates :
        ServiceCall("index_document", index_document(rag.svc, fate))

SearchDocuments ==
    /\ rag.pc = "ready"
    /\ \E fate \in {"none", "search"} :
        ServiceCall("search_documents", search_documents(rag.svc, fate))

GenerateRagResponse ==
    /\ rag.pc = "ready"
    /\ \E fate \in {"none", "search", "chat"} :
        ServiceCall("generate_rag_response", generate_rag_response(rag.svc, fate))

IsHealthy ==
    /\ rag.pc = "ready"
    /\ ServiceCall("is_healthy", is_healthy(rag.svc))

\* process_documents_folder(folder_path) is called: it raises before its
\* loop, or enters the loop over the entries of the folder.
ProcessDocumentsFolder ==
    /\ rag.pc = "ready"
    /\ rag.calls < MaxRagCalls
    /\ \E exists \in BOOLEAN, folder \in Folders, index_fate \in {"none", "index"} :
        LET start == sweep_start(rag.svc, exists, index_fate)
        IN  rag' = [rag EXCEPT
                !.svc = start.svc, !.calls = @ + 1,
                !.pc = IF start.raised = "None" THEN "sweep" ELSE "ready",
                !.last = [Operation("process_documents_folder", start)
                            EXCEPT !.exists = exists,
                                   !.folder = IF exists THEN folder ELSE <<>>,
                                   !.value = IF start.raised = "None"
                                             THEN "pending" ELSE "None"]]
    /\ UNCHANGED <<store_vars, server_vars, chunker, speech, indexer, search, audio, updater, task>>

\* One iteration of the for loop: a supported file is indexed and goes to
\* files_processed, or to files_failed when index_document raises; any
\* other entry is passed over.
SweepEntry ==
    /\ rag.pc = "sweep"
    /\ rag.last.visited < Len(rag.last.folder)
    /\ LET k == rag.last.visited + 1
           entry == rag.last.folder[k]
       IN  IF entry.is_file /\ lower(entry.suffix) \in supported_extensions
           THEN \E fate \in FileFates :
                  LET result == index_document(rag.svc, fate)
                  IN  rag' = [rag EXCEPT
                        !.svc = result.svc,
                        !.last = [@ EXCEPT
                            !.visited = k,
                            !.attempted = Append(@, k),
                            !.steps = @ \o result.steps,
                            !.files_processed = IF result.raised = "None"
                                                THEN Append(@, k) ELSE @,
                            !.files_failed = IF result.raised = "None"
                                             THEN @ ELSE Append(@, k)]]
           ELSE rag' = [rag EXCEPT !.last = [@ EXCEPT !.visited = k]]
    /\ UNCHANGED <<store_vars, server_vars, chunker, speech, indexer, search, audio, updater, task>>

\* The loop is over: the summary is built and returned.
SweepReturn ==
    /\ rag.pc = "sweep"
    /\ rag.last.visited = Len(rag.last.folder)
    /\ rag' = [rag EXCEPT
            !.pc = "ready",
            !.last = [@ EXCEPT !.value = "summary",
                               !.summary = Summary(rag.last.files_processed,
                                                   rag.last.files_failed)]]
    /\ UNCHANGED <<store_vars, server_vars, chunker, speech, indexer, search, audio, updater, task>>

UploadDocument ==
    /\ rag.pc = "ready"
    /\ rag.calls < MaxRagCalls
    /\ \E suffix \in Suffixes, index_immediately \in BOOLEAN, fate \in UploadFates :
        LET result == upload_document(rag.svc, rag.disk, rag.tmp_made + 1, suffix,
                                      index_immediately, fate)
        IN  rag' = [rag EXCEPT
                !.svc = result.svc, !.calls = @ + 1, !.disk = result.disk,
                !.tmp_made = IF result.tmp_file = 0 THEN @ ELSE @ + 1,
                !.last = [NoOperation EXCEPT
                            !.op = "upload_document", !.status = result.status,
                            !.steps = result.steps, !.suffix = suffix,
                            !.tmp_file = result.tmp_file]]
    /\ UNCHANGED <<store_vars, server_vars, chunker, speech, indexer, search, audio, updater, task>>

\* The environments of the deployments the repository documents: keys and a
\* connection string, a managed identity with the storage account URL, and
\* nothing set.
Deployments ==
    {[USE_MANAGED_IDENTITY |-> FALSE, AZURE_STORAGE_CONNECTION_STRING |-> "AccountName",
      AZURE_STORAGE_ACCOUNT_URL |-> FALSE, AZURE_SEARCH_SERVICE_ENDPOINT |-> TRUE,
      AZURE_SEARCH_API_KEY |-> TRUE, AZURE_OPENAI_ENDPOINT |-> TRUE,
      AZURE_OPENAI_API_KEY |-> TRUE],
     [USE_MANAGED_IDENTITY |-> TRUE, AZURE_STORAGE_CONNECTION_STRING |-> "None",
      AZURE_STORAGE_ACCOUNT_URL |-> TRUE, AZURE_SEARCH_SERVICE_ENDPOINT |-> TRUE,
      AZURE_SEARCH_API_KEY |-> FALSE, AZURE_OPENAI_ENDPOINT |-> TRUE,
      AZURE_OPENAI_API_KEY |-> FALSE],
     [USE_MANAGED_IDENTITY |-> FALSE, AZURE_STORAGE_CONNECTION_STRING |-> "None",
      AZURE_STORAGE_ACCOUNT_URL |-> FALSE, AZURE_SEARCH_SERVICE_ENDPOINT |-> FALSE,
      AZURE_SEARCH_API_KEY |-> FALSE, AZURE_OPENAI_ENDPOINT |-> FALSE,
      AZURE_OPENAI_API_KEY |-> FALSE]}

InitRag ==
    /\ InitStoreVars
    /\ env = [use_mock_ai |-> TRUE, use_key_vault |-> FALSE]
    /\ IdleServer
    /\ chunker = IdleChunker
    /\ \E debug_mode \in BOOLEAN, environ \in Deployments :
           rag = [pc |-> "ready", svc |-> AzureRAGService(debug_mode, environ),
                  disk |-> {}, tmp_made |-> 0, calls |-> 0, last |-> NoOperation]
    /\ speech = IdleSpeech
    /\ indexer = IdleIndexer
    /\ search = IdleSearch
    /\ audio = IdleAudio
    /\ updater = IdleUpdater
    /\ task = IdleTask

NextRag ==
    \/ Initialize
    \/ UploadDocumentToBlob
    \/ CreateSearchIndex
    \/ IndexDocument
    \/ SearchDocuments
    \/ GenerateRagResponse
    \/ IsHealthy
    \/ ProcessDocumentsFolder
    \/ SweepEntry
    \/ SweepReturn
    \/ UploadDocument

SpecRag == InitRag /\ [][NextRag]_vars

\* GET /api/azure-rag/health: initialize the service when it is not, then
\* 200 when is_healthy() says so and 503 otherwise or when anything raised.
health_check(svc) ==
    LET init == IF ~svc.initialized THEN initialize(svc)
                ELSE Returned(svc, "None", <<>>)
        healthy == is_healthy(init.svc)
    IN  [svc |-> init.svc, raised |-> init.raised, value |-> healthy.value,
         status |-> IF init.raised = "None" /\ healthy.value = "True"
                    THEN 200 ELSE 503]

HealthCheck ==
    /\ rag.pc = "ready"
    /\ rag.calls < MaxRagCalls
    /\ LET out == health_check(rag.svc)
       IN  rag' = [rag EXCEPT !.svc = out.svc, !.calls = @ + 1,
                              !.last = [NoOperation EXCEPT !.op = "health_check",
                                            !.raised = out.raised,
                                            !.value = out.value,
                                            !.status = out.status]]
    /\ UNCHANGED <<store_vars, server_vars, chunker, speech, indexer, search,
                   audio, updater, task>>

\* The service under every environment, with initialize, is_healthy and the
\* health route.
InitHealth ==
    /\ InitStoreVars
    /\ env = [use_mock_ai |-> TRUE, use_key_vault |-> FALSE]
    /\ IdleServer
    /\ chunker = IdleChunker
    /\ \E debug_mode \in BOOLEAN, environ \in Environments :
           rag = [pc |-> "ready", svc |-> AzureRAGService(debug_mode, environ),
                  disk |-> {}, tmp_made |-> 0, calls |-> 0, last |-> NoOperation]
    /\ speech = IdleSpeech
    /\ indexer = IdleIndexer
    /\ search = IdleSearch
    /\ audio = IdleAudio
    /\ updater = IdleUpdater
    /\ task = IdleTask

NextHealth ==
    \/ Initialize
    \/ IsHealthy
    \/ HealthCheck

SpecHealth == InitHealth /\ [][NextHealth]_vars

\* ------------------------------------------------------ claims C12, C14-C16
ServiceOps ==
    {"initialize", "create_search_index", "search_documents",
     "generate_rag_response", "upload_document_to_blob", "index_document",
     "process_documents_folder", "is_healthy"}

UsesClient(steps) == \E i \in 1..Len(steps) : steps[i] \in ClientSteps

\* C12: with the debug flag set every operation of the Azure RAG service
\* completes with a canned or no-op result, uses no blob, search or
\* chat-completion client, and so never fails on a client that was never
\* constructed.
C12_Claim ==
    (rag.pc # "none" /\ rag.svc.debug_mode /\ rag.last.op \in ServiceOps) =>
        /\ rag.last.raised = "None"
        /\ ~UsesClient(rag.last.steps)

UploadStep == rag'.calls = rag.calls + 1 /\ rag'.last.op = "upload_document"

\* The extensions the upload endpoint is said to accept.
C14_Extensions == {".pdf", ".docx", ".doc", ".txt"}

C14_Step ==
    (UploadStep /\ lower(rag'.last.suffix) \notin C14_Extensions) =>
        /\ rag'.last.status = 400
        /\ rag'.last.steps = <<>>
        /\ rag'.last.tmp_file = 0
        /\ rag'.disk = rag.disk
        /\ rag'.tmp_made = rag.tmp_made
        /\ rag'.svc = rag.svc

\* C14: an upload whose file extension is outside {.pdf, .docx, .doc, .txt}
\* is answered 400 with no temporary file created and no blob upload, index
\* creation or index write attempted.
C14_Theorem == [][C14_Step]_vars

\* A .csv upload has been refused.
C14_Witness ==
    /\ rag.pc # "none"
    /\ rag.last.op = "upload_document"
    /\ rag.last.suffix = ".csv"
    /\ rag.last.status = 400

\* C15: once the temporary file of an upload request has been created it no
\* longer exists when the request has finished, whichever later step failed.
C15_Claim ==
    (rag.pc # "none" /\ rag.last.op = "upload_document" /\ rag.last.tmp_file # 0) =>
        rag.last.tmp_file \notin rag.disk

Supported(entry) == entry.is_file /\ lower(entry.suffix) \in supported_extensions

Members(seq) == {seq[i] : i \in 1..Len(seq)}

NoRepeats(seq) == Cardinality(Members(seq)) = Len(seq)

\* process_documents_folder has returned its summary.
SweepDone ==
    /\ rag.pc = "ready"
    /\ rag.last.op = "process_documents_folder"
    /\ rag.last.value = "summary"

SpeechKeys == {"None", "", "paste-your-speech-key-here", "key"}

SpeechRegions == {"None", "", "paste-your-speech-region-here", "japaneast"}

\* How the token POST ends: a response with a status, or an exception.
Upstreams == {"200", "401", "403", "500", "exception"}

\* `not value` for an optional string
Falsy(value) == value \in {"None", ""}

rejects_key_only(speech_key, speech_region) ==
    \/ Falsy(speech_key) \/ Falsy(speech_region)
    \/ speech_key = "paste-your-speech-key-here"

\* The two checks that raise HTTPException(400).
rejects(speech_key, speech_region) ==
    \/ Falsy(speech_key) \/ Falsy(speech_region)
    \/ speech_key = "paste-your-speech-key-here"
    \/ speech_region = "paste-your-speech-region-here"

\* The status the handler answers once the POST has ended.
token_status(upstream) ==
    IF upstream = "200" THEN 200
    ELSE IF upstream = "exception" THEN 500
    ELSE 401

\* The handler runs up to the POST: it answers 400, or issues the POST.
GetSpeechToken ==
    /\ speech.pc = "ready"
    /\ Len(speech.answers) < MaxTokenRequests
    /\ IF rejects(speech.key, speech.region)
       THEN speech' = [speech EXCEPT !.answers = Append(@, 400),
                                     !.upstream = "none"]
       ELSE speech' = [speech EXCEPT !.pc = "posting", !.posts = @ + 1]
    /\ UNCHANGED <<store_vars, server_vars, chunker, rag, indexer, search, audio, updater, task>>

\* The POST ends and the handler answers.
TokenPostEnds ==
    /\ speech.pc = "posting"
    /\ \E upstream \in Upstreams :
          speech' = [speech EXCEPT !.pc = "ready", !.upstream = upstream,
                                   !.answers = Append(@, token_status(upstream))]
    /\ UNCHANGED <<store_vars, server_vars, chunker, rag, indexer, search, audio, updater, task>>

InitSpeech ==
    /\ InitStoreVars
    /\ env = [use_mock_ai |-> TRUE, use_key_vault |-> FALSE]
    /\ IdleServer
    /\ chunker = IdleChunker
    /\ rag = IdleRag
    /\ \E key \in SpeechKeys, region \in SpeechRegions :
           speech = [pc |-> "ready", key |-> key, region |-> region, posts |-> 0,
                     upstream |-> "none", answers |-> <<>>]
    /\ indexer = IdleIndexer
    /\ search = IdleSearch
    /\ audio = IdleAudio
    /\ updater = IdleUpdater
    /\ task = IdleTask

NextSpeech ==
    \/ GetSpeechToken
    \/ TokenPostEnds

SpecSpeech == InitSpeech /\ [][NextSpeech]_vars

\* ------------------------------------------------------------- claim C13
\* The key or the region is absent or still the placeholder.
C13_Unusable ==
    \/ speech.key \in {"None", "", "paste-your-speech-key-here"}
    \/ speech.region \in {"None", "", "paste-your-speech-region-here"}

C13_State ==
    speech.pc # "none" =>
        IF C13_Unusable
        THEN /\ speech.posts = 0
             /\ speech.pc = "ready"
             /\ \A i \in 1..Len(speech.answers) : speech.answers[i] = 400
        ELSE /\ speech.posts = Len(speech.answers)
                                + (IF speech.pc = "posting" THEN 1 ELSE 0)
             /\ \A i \in 1..Len(speech.answers) : speech.answers[i] # 400

C13_Step ==
    Len(speech'.answers) = Len(speech.answers) + 1 =>
        LET status == speech'.answers[Len(speech'.answers)]
        IN  /\ speech'.upstream = "200" => status = 200
            /\ speech'.upstream \in {"401", "403", "500"} => status = 401
            /\ speech'.upstream = "exception" => status = 500
            /\ speech'.upstream = "none" => status = 400

\* C13: the token endpoint answers 400 and issues no upstream POST whenever
\* the speech key or region is absent or still its placeholder; otherwise it
\* issues the POST once per request, and answers 401 to a non-200 upstream
\* status and 500 to any other failure.
C13_Theorem == [](C13_State) /\ [][C13_Step]_vars

\* A placeholder region has been refused.
C13_Witness ==
    /\ speech.pc # "none"
    /\ speech.key = "key"
    /\ speech.region = "paste-your-speech-region-here"
    /\ speech.answers = <<400>>

\* ===================================================== scripts/index_documents
\* One run of the indexing script: settings, the folder on disk, the steps it
\* started, the REST calls of the provisioning step, and the exit code.

\* The search endpoint and the storage URL as the script reads them: unset, a
\* URL, or a value without "//".
Endpoints == {"None", "https://name.example", "name.example"}

\* str.split("//")[1] raises IndexError when the value has no "//".
has_authority(url) == url = "https://name.example"

\* HTTP status codes a REST step can receive.
Statuses == {200, 201, 202, 204, 400, 500}

\* What requests.put / requests.post ends with: a response, or an exception.
Responses ==
    [raised : {FALSE}, status : Statuses] \cup {[raised |-> TRUE, status |-> 0]}

extensions == {".txt", ".pdf", ".docx"}

NoResults == [uploaded |-> 0, failed |-> 0, skipped |-> 0]

\* Exit code of a run that has not ended.
Running == -1

\* One pass of the loop body of batch_upload_documents over one entry; ok is
\* what upload_document returns for it.
tally_uncounted(results, entry, ok) ==
    IF ~entry.is_file THEN results
    ELSE IF lower(entry.suffix) \notin extensions
    THEN [results EXCEPT !.skipped = @ + 1]
    ELSE IF ok THEN [results EXCEPT !.uploaded = @ + 1]
    ELSE results

tally(results, entry, ok) ==
    IF ~entry.is_file THEN results
    ELSE IF lower(entry.suffix) \notin extensions
    THEN [results EXCEPT !.skipped = @ + 1]
    ELSE IF ok THEN [results EXCEPT !.uploaded = @ + 1]
    ELSE [results EXCEPT !.failed = @ + 1]

\* upload_document is reached for files with a matching extension only.
uploads(entry) == entry.is_file /\ lower(entry.suffix) \in extensions

\* sys.exit(code): the run ends.
sys_exit(code) == [indexer EXCEPT !.pc = "exited", !.exit_code = code]

\* main, up to the try block: the three checks of the settings and the folder.
Validate ==
    /\ indexer.pc = "main"
    /\ indexer' =
           IF indexer.search_endpoint = "None" THEN sys_exit(1)
           ELSE IF indexer.storage_url = "None" THEN sys_exit(1)
           ELSE IF ~indexer.exists THEN sys_exit(1)
           ELSE [indexer EXCEPT !.pc = "construct"]
    /\ UNCHANGED <<store_vars, server_vars, chunker, rag, speech, search, audio, updater, task>>

\* RAGIndexer(...): a client constructor may raise, which main turns into
\* exit code 1.
ConstructIndexer ==
    /\ indexer.pc = "construct"
    /\ \E raised \in BOOLEAN :
           indexer' = IF raised THEN sys_exit(1)
                      ELSE [indexer EXCEPT !.pc = "container"]
    /\ UNCHANGED <<store_vars, server_vars, chunker, rag, speech, search, audio, updater, task>>

\* create_container returns False when the container cannot be made.
CreateContainer ==
    /\ indexer.pc = "container"
    /\ \E made \in BOOLEAN :
           indexer' =
               IF made
               THEN [indexer EXCEPT !.pc = "index",
                                    !.steps = Append(@, "container"),
                                    !.container = "True"]
               ELSE [sys_exit(1) EXCEPT !.steps = Append(@, "container"),
                                        !.container = "False"]
    /\ UNCHANGED <<store_vars, server_vars, chunker, rag, speech, search, audio, updater, task>>

\* create_index re-raises what the search client raises.
CreateIndex ==
    /\ indexer.pc = "index"
    /\ \E raised \in BOOLEAN :
           indexer' =
               IF raised
               THEN [sys_exit(1) EXCEPT !.steps = Append(@, "index"),
                                        !.index = "raised"]
               ELSE [indexer EXCEPT !.pc = "upload",
                                    !.steps = Append(@, "index"),
                                    !.index = "returned"]
    /\ UNCHANGED <<store_vars, server_vars, chunker, rag, speech, search, audio, updater, task>>

\* batch_upload_documents up to its loop.
BatchUploadDocuments ==
    /\ indexer.pc = "upload"
    /\ indexer' = [indexer EXCEPT !.pc = "walk",
                                  !.steps = Append(@, "upload"),
                                  !.visited = 0,
                                  !.results = NoResults]
    /\ UNCHANGED <<store_vars, server_vars, chunker, rag, speech, search, audio, updater, task>>

\* One entry of folder.rglob("*").
WalkEntry ==
    /\ indexer.pc = "walk"
    /\ indexer.visited < Len(indexer.folder)
    /\ LET i == indexer.visited + 1
           entry == indexer.folder[i]
       IN  \E ok \in (IF uploads(entry) THEN BOOLEAN ELSE {FALSE}) :
               indexer' =
                   [indexer EXCEPT
                        !.visited = i,
                        !.attempted = IF uploads(entry)
                                      THEN Append(@, [entry |-> i, ok |-> ok])
                                      ELSE @,
                        !.results = tally(@, entry, ok)]
    /\ UNCHANGED <<store_vars, server_vars, chunker, rag, speech, search, audio, updater, task>>

\* batch_upload_documents returns; main ends the run if an upload failed, and
\* otherwise takes the storage account name out of the storage URL.
BatchUploadReturn ==
    /\ indexer.pc = "walk"
    /\ indexer.visited = Len(indexer.folder)
    /\ indexer' =
           IF indexer.results.failed > 0
           THEN [sys_exit(1) EXCEPT !.upload = "returned"]
           ELSE IF ~has_authority(indexer.storage_url)
           THEN [sys_exit(1) EXCEPT !.upload = "returned"]
           ELSE [indexer EXCEPT !.pc = "provision", !.upload = "returned"]
    /\ UNCHANGED <<store_vars, server_vars, chunker, rag, speech, search, audio, updater, task>>

\* create_data_source_and_indexer has returned value to main.
provisioned(value) ==
    IF value
    THEN [sys_exit(0) EXCEPT !.returned = "True"]
    ELSE [sys_exit(1) EXCEPT !.returned = "False"]

\* create_data_source_and_indexer up to the first request: the service name
\* and the access token, either of which may raise.
CreateDataSourceAndIndexer ==
    /\ indexer.pc = "provision"
    /\ \E raised \in BOOLEAN :
           indexer' =
               IF raised \/ ~has_authority(indexer.search_endpoint)
               THEN [provisioned(FALSE) EXCEPT !.steps = Append(@, "provision")]
               ELSE [indexer EXCEPT !.pc = "datasource",
                                    !.steps = Append(@, "provision")]
    /\ UNCHANGED <<store_vars, server_vars, chunker, rag, speech, search, audio, updater, task>>

\* The outcome of one of the two PUT requests.
put_ok(response) == ~response.raised /\ response.status \in {200, 201, 204}

DataSourcePut ==
    /\ indexer.pc = "datasource"
    /\ \E response \in Responses :
           LET rest == Append(indexer.rest,
                              [step |-> "datasource", status |-> response.status,
                               raised |-> response.raised])
           IN  indexer' =
                   IF put_ok(response)
                   THEN [indexer EXCEPT !.pc = "indexer", !.rest = rest]
                   ELSE [provisioned(FALSE) EXCEPT !.rest = rest]
    /\ UNCHANGED <<store_vars, server_vars, chunker, rag, speech, search, audio, updater, task>>

IndexerPut ==
    /\ indexer.pc = "indexer"
    /\ \E response \in Responses :
           LET rest == Append(indexer.rest,
                              [step |-> "indexer", status |-> response.status,
                               raised |-> response.raised])
           IN  indexer' =
                   IF put_ok(response)
                   THEN [indexer EXCEPT !.pc = "run", !.rest = rest]
                   ELSE [provisioned(FALSE) EXCEPT !.rest = rest]
    /\ UNCHANGED <<store_vars, server_vars, chunker, rag, speech, search, audio, updater, task>>

\* The run request: a status outside 200 and 202 is logged as a warning, and
\* only an exception makes the operation return False.
IndexerRun ==
    /\ indexer.pc = "run"
    /\ \E response \in Responses :
           LET rest == Append(indexer.rest,
                              [step |-> "run", status |-> response.status,
                               raised |-> response.raised])
           IN  indexer' = [provisioned(~response.raised) EXCEPT !.rest = rest]
    /\ UNCHANGED <<store_vars, server_vars, chunker, rag, speech, search, audio, updater, task>>

InitIndexer ==
    /\ InitStoreVars
    /\ env = [use_mock_ai |-> TRUE, use_key_vault |-> FALSE]
    /\ IdleServer
    /\ chunker = IdleChunker
    /\ rag = IdleRag
    /\ speech = IdleSpeech
    /\ \E search_endpoint \in Endpoints, storage_url \in Endpoints,
          exists \in BOOLEAN, folder \in Folders :
           indexer = [pc |-> "main", search_endpoint |-> search_endpoint,
                      storage_url |-> storage_url, exists |-> exists,
                      folder |-> folder, steps |-> <<>>,
                      container |-> "None", index |-> "None", upload |-> "None",
                      visited |-> 0, attempted |-> <<>>, results |-> NoResults,
                      rest |-> <<>>, returned |-> "None", exit_code |-> Running]
    /\ search = IdleSearch
    /\ audio = IdleAudio
    /\ updater = IdleUpdater
    /\ task = IdleTask

NextIndexer ==
    \/ Validate
    \/ ConstructIndexer
    \/ CreateContainer
    \/ CreateIndex
    \/ BatchUploadDocuments
    \/ WalkEntry
    \/ BatchUploadReturn
    \/ CreateDataSourceAndIndexer
    \/ DataSourcePut
    \/ IndexerPut
    \/ IndexerRun

SpecIndexer == InitIndexer /\ [][NextIndexer]_vars

\* ================================================ scripts/update_search_index
\* One run of the update script: its arguments, the folder on disk, the
\* container and the index as the services hold them, and the exit code.

\* sys.exit(code) in the update script: the run ends.
exit_update(code) == [updater EXCEPT !.pc = "exited", !.exit_code = code]

\* main, up to the try block: the two checks of the settings.
UpdateValidate ==
    /\ updater.pc = "main"
    /\ updater' =
           IF updater.search_endpoint = "None" THEN exit_update(1)
           ELSE IF updater.storage_url = "None" THEN exit_update(1)
           ELSE [updater EXCEPT !.pc = "construct"]
    /\ UNCHANGED <<store_vars, server_vars, chunker, rag, speech, indexer, search,
                   audio, task>>

\* RAGIndexer(...): a client constructor may raise, which main turns into
\* exit code 1. The container is next when a folder was given.
UpdateConstruct ==
    /\ updater.pc = "construct"
    /\ \E raised \in BOOLEAN :
           updater' = IF raised THEN exit_update(1)
                      ELSE [updater EXCEPT !.pc = IF updater.has_folder
                                                  THEN "container" ELSE "rebuild"]
    /\ UNCHANGED <<store_vars, server_vars, chunker, rag, speech, indexer, search,
                   audio, task>>

\* create_container: True when the container is there or has been made,
\* False when neither request succeeds; main exits on False.
UpdateCreateContainer ==
    /\ updater.pc = "container"
    /\ \E made \in BOOLEAN :
           updater' =
               IF made
               THEN [updater EXCEPT !.pc = "rebuild",
                                    !.steps = Append(@, "container"),
                                    !.container_exists = TRUE]
               ELSE [exit_update(1) EXCEPT !.steps = Append(@, "container")]
    /\ UNCHANGED <<store_vars, server_vars, chunker, rag, speech, indexer, search,
                   audio, task>>

\* --rebuild: delete_index, whose failure is logged only.
UpdateRebuild ==
    /\ updater.pc = "rebuild"
    /\ \E deleted \in BOOLEAN :
           updater' =
               IF ~updater.rebuild THEN [updater EXCEPT !.pc = "index"]
               ELSE IF deleted
               THEN [updater EXCEPT !.pc = "index",
                                    !.steps = Append(@, "delete"),
                                    !.index = "absent"]
               ELSE [updater EXCEPT !.pc = "index", !.steps = Append(@, "delete")]
    /\ UNCHANGED <<store_vars, server_vars, chunker, rag, speech, indexer, search,
                   audio, task>>

\* create_index: returns when the index is found, creates it otherwise, and
\* re-raises what the creation raises. Without a folder the run is over.
UpdateCreateIndex ==
    /\ updater.pc = "index"
    /\ \E raised \in BOOLEAN :
           LET after == IF updater.has_folder THEN [updater EXCEPT !.pc = "folder"]
                        ELSE exit_update(0)
           IN  updater' =
                   IF updater.index # "absent"
                   THEN [after EXCEPT !.steps = Append(@, "index")]
                   ELSE IF raised
                   THEN [exit_update(1) EXCEPT !.steps = Append(@, "index")]
                   ELSE [after EXCEPT !.steps = Append(@, "index"),
                                      !.index = "created"]
    /\ UNCHANGED <<store_vars, server_vars, chunker, rag, speech, indexer, search,
                   audio, task>>

\* The folder must exist; batch_upload_documents up to its loop.
UpdateFolder ==
    /\ updater.pc = "folder"
    /\ updater' =
           IF ~updater.exists THEN exit_update(1)
           ELSE [updater EXCEPT !.pc = "walk", !.steps = Append(@, "upload"),
                                !.visited = 0, !.results = NoResults]
    /\ UNCHANGED <<store_vars, server_vars, chunker, rag, speech, indexer, search,
                   audio, task>>

\* One entry of folder.rglob("*").
UpdateWalkEntry ==
    /\ updater.pc = "walk"
    /\ updater.visited < Len(updater.folder)
    /\ LET i == updater.visited + 1
           entry == updater.folder[i]
       IN  \E ok \in (IF uploads(entry) THEN BOOLEAN ELSE {FALSE}) :
               updater' = [updater EXCEPT !.visited = i,
                                          !.results = tally(@, entry, ok)]
    /\ UNCHANGED <<store_vars, server_vars, chunker, rag, speech, indexer, search,
                   audio, task>>

\* batch_upload_documents returns: exit code 1 if an upload failed.
UpdateReturn ==
    /\ updater.pc = "walk"
    /\ updater.visited = Len(updater.folder)
    /\ updater' = IF updater.results.failed > 0 THEN exit_update(1)
                  ELSE exit_update(0)
    /\ UNCHANGED <<store_vars, server_vars, chunker, rag, speech, indexer, search,
                   audio, task>>

InitUpdater ==
    /\ InitStoreVars
    /\ env = [use_mock_ai |-> TRUE, use_key_vault |-> FALSE]
    /\ IdleServer
    /\ chunker = IdleChunker
    /\ rag = IdleRag
    /\ speech = IdleSpeech
    /\ indexer = IdleIndexer
    /\ search = IdleSearch
    /\ audio = IdleAudio
    /\ \E search_endpoint \in {"None", "https://name.example"},
          storage_url \in {"None", "https://name.example"},
          has_folder \in BOOLEAN, exists \in BOOLEAN, rebuild \in BOOLEAN,
          container_exists \in BOOLEAN, index \in {"absent", "existing"} :
        \E folder \in (IF has_folder /\ exists THEN Folders ELSE {<<>>}) :
           /\ exists => has_folder
           /\ updater = [pc |-> "main", search_endpoint |-> search_endpoint,
                         storage_url |-> storage_url, has_folder |-> has_folder,
                         exists |-> exists, rebuild |-> rebuild, folder |-> folder,
                         container_exists |-> container_exists, index |-> index,
                         before |-> [container_exists |-> container_exists,
                                     index |-> index],
                         steps |-> <<>>, visited |-> 0, results |-> NoResults,
                         exit_code |-> Running]
    /\ task = IdleTask

NextUpdater ==
    \/ UpdateValidate
    \/ UpdateConstruct
    \/ UpdateCreateContainer
    \/ UpdateRebuild
    \/ UpdateCreateIndex
    \/ UpdateFolder
    \/ UpdateWalkEntry
    \/ UpdateReturn

SpecUpdater == InitUpdater /\ [][NextUpdater]_vars

\* ------------------------------------------------------------- claim C17
\* Positions of the non-directory files among the first n entries of the folder.
C17_Files(n) == {i \in 1..n : indexer.folder[i].is_file}

\* Those of them whose lower-cased extension is one of the uploaded kinds.
C17_Matching(n) ==
    {i \in C17_Files(n) : lower(indexer.folder[i].suffix) \in {".txt", ".pdf", ".docx"}}

C17_Attempts(ok) ==
    {k \in 1..Len(indexer.attempted) : indexer.attempted[k].ok = ok}

C17_State ==
    indexer.pc # "none" =>
        LET n == indexer.visited
            r == indexer.results
        IN  /\ r.uploaded + r.failed + r.skipped = Cardinality(C17_Files(n))
            /\ r.skipped = Cardinality(C17_Files(n) \ C17_Matching(n))
            /\ r.uploaded = Cardinality(C17_Attempts(TRUE))
            /\ r.failed = Cardinality(C17_Attempts(FALSE))
            /\ {indexer.attempted[k].entry : k \in 1..Len(indexer.attempted)}
                   = C17_Matching(n)
            /\ Len(indexer.attempted) = Cardinality(C17_Matching(n))
            /\ indexer.upload = "returned" => n = Len(indexer.folder)

\* C17: batch_upload_documents returns counters whose sum is the number of
\* non-directory files under the folder: a file with a non-matching extension
\* adds one to skipped and is never uploaded, a matching file adds one to
\* exactly one of uploaded and failed, and a failed upload does not stop the
\* walk.
C17_Theorem == [](C17_State)

\* The walk has returned after a failed upload that was followed by a skipped
\* file and by a successful upload.
C17_Witness ==
    /\ indexer.pc # "none"
    /\ indexer.upload = "returned"
    /\ Len(indexer.folder) = 3
    /\ indexer.folder[2].suffix = ".csv"
    /\ indexer.attempted = <<[entry |-> 1, ok |-> FALSE], [entry |-> 3, ok |-> TRUE]>>
    /\ indexer.results = [uploaded |-> 1, failed |-> 1, skipped |-> 1]

\* ------------------------------------------------------------- claim C18
\* The k-th REST step received a response whose status is not 2xx.
C18_Non2xx(k) ==
    /\ ~indexer.rest[k].raised
    /\ indexer.rest[k].status \notin 200..299

\* C18: create_data_source_and_indexer returns False whenever one of its
\* three REST steps (data-source PUT, indexer PUT, indexer run POST) receives
\* a non-2xx response, and issues no step after a step that failed.
C18_Claim ==
    indexer.pc # "none" =>
        /\ \A k \in 1..Len(indexer.rest) :
               C18_Non2xx(k) =>
                   /\ indexer.returned # "True"
                   /\ k = Len(indexer.rest)
        /\ (indexer.pc = "exited" /\ \E k \in 1..Len(indexer.rest) : C18_Non2xx(k))
               => indexer.returned = "False"

\* ------------------------------------------------------------- claim C19
C19_Order == <<"container", "index", "upload", "provision">>

\* A setting is missing or the folder does not exist.
C19_Invalid ==
    \/ indexer.search_endpoint = "None"
    \/ indexer.storage_url = "None"
    \/ ~indexer.exists

\* The provisioning step did what it is for: it reported success and none of
\* its requests was refused.
C19_Provisioned ==
    /\ indexer.returned = "True"
    /\ \A k \in 1..Len(indexer.rest) :
           ~indexer.rest[k].raised /\ indexer.rest[k].status \in 200..299

\* Every one of the four steps ran and succeeded.
C19_AllSucceeded ==
    /\ indexer.steps = C19_Order
    /\ indexer.container = "True"
    /\ indexer.index = "returned"
    /\ indexer.upload = "returned" /\ indexer.results.failed = 0
    /\ C19_Provisioned

\* The steps started so far are the first ones of the order, and none was
\* started after a step that failed.
C19_Steps ==
    /\ Len(indexer.steps) <= 4
    /\ indexer.steps = SubSeq(C19_Order, 1, Len(indexer.steps))
    /\ indexer.container = "False" => indexer.steps = <<"container">>
    /\ indexer.index = "raised" => indexer.steps = <<"container", "index">>
    /\ indexer.results.failed > 0 => Len(indexer.steps) <= 3
    /\ C19_Invalid => indexer.steps = <<>>

C19_Exit ==
    indexer.pc = "exited" =>
        /\ indexer.exit_code = 0 <=> C19_AllSucceeded
        /\ indexer.exit_code \in {0, 1}

\* C19: the script starts container creation, index creation, batch upload
\* and provisioning in that order, starts no step after a failed one, and
\* exits 0 exactly when every step succeeded; with a missing setting or a
\* missing folder it starts no step and exits non-zero.
C19_Claim ==
    indexer.pc # "none" => (C19_Steps /\ C19_Exit)

\* =========================================== SimpleEmbeddingService.search_chunks
\* The lexical search over the chunks the service holds. A chunk is named by
\* its position in self.chunks; its content and the query are sequences of
\* characters.

ContentAlphabet == {"a", "B"}

QueryAlphabet == {"A", "b", " "}

ChunkContents == UNION {[1..n -> ContentAlphabet] : n \in 0..MaxContent}

Corpora == UNION {[1..n -> ChunkContents] : n \in 0..MaxChunks}

Queries == UNION {[1..n -> QueryAlphabet] : n \in 0..MaxQuery}

\* str.lower(), character by character.
lower_char(ch) == IF ch = "A" THEN "a" ELSE IF ch = "B" THEN "b" ELSE ch

str_lower(text) == [i \in 1..Len(text) |-> lower_char(text[i])]

\* str.split(): the maximal runs of non-whitespace characters, in order.
RECURSIVE split_from(_, _, _)
split_from(text, i, word) ==
    IF i > Len(text)
    THEN IF word = <<>> THEN <<>> ELSE <<word>>
    ELSE IF text[i] \in Whitespace
         THEN (IF word = <<>> THEN <<>> ELSE <<word>>) \o split_from(text, i + 1, <<>>)
         ELSE split_from(text, i + 1, Append(word, text[i]))

split(text) == split_from(text, 1, <<>>)

\* str.count(word): occurrences found from the left, each search resuming
\* after the end of the previous occurrence.
RECURSIVE count_from(_, _, _)
count_from(content, word, i) ==
    IF i + Len(word) > Len(content) THEN 0
    ELSE IF SubSeq(content, i + 1, i + Len(word)) = word
         THEN 1 + count_from(content, word, i + Len(word))
         ELSE count_from(content, word, i + 1)

count(content, word) == count_from(content, word, 0)

\* The score the loop gives one chunk: the counts of the query's words added up.
RECURSIVE sum_counts(_, _)
sum_counts(content_lower, words) ==
    IF words = <<>> THEN 0
    ELSE count(content_lower, Head(words)) + sum_counts(content_lower, Tail(words))

score_of(content, query) == sum_counts(str_lower(content), split(str_lower(query)))

\* results after the loop: the (chunk, score) pairs with a positive score, in
\* the order of self.chunks.
RECURSIVE scored_from(_, _, _)
scored_from(chunks, query, i) ==
    IF i > Len(chunks) THEN <<>>
    ELSE LET score == score_of(chunks[i], query)
         IN  (IF score > 0 THEN <<[chunk |-> i, score |-> score]>> ELSE <<>>)
                 \o scored_from(chunks, query, i + 1)

\* list.sort(key=score, reverse=True) is stable: a pair goes behind every pair
\* already placed whose score is at least its own.
RECURSIVE insert_sorted(_, _)
insert_sorted(sorted, pair) ==
    IF sorted = <<>> THEN <<pair>>
    ELSE IF Head(sorted).score >= pair.score
         THEN <<Head(sorted)>> \o insert_sorted(Tail(sorted), pair)
         ELSE <<pair>> \o sorted

RECURSIVE sort_from(_, _, _)
sort_from(results, i, sorted) ==
    IF i > Len(results) THEN sorted
    ELSE sort_from(results, i + 1, insert_sorted(sorted, results[i]))

sort_reverse_unsorted(results) == results

sort_reverse(results) == sort_from(results, 1, <<>>)

search_chunks(chunks, query, max_results) ==
    LET results == sort_reverse(scored_from(chunks, query, 1))
        top == Slice(results, 0, max_results)
    IN  [i \in 1..Len(top) |-> top[i].chunk]

SearchChunks ==
    /\ search.pc = "call"
    /\ search' = [search EXCEPT
                      !.pc = "returned",
                      !.returned = search_chunks(search.chunks, search.query,
                                                 search.max_results)]
    /\ UNCHANGED <<store_vars, server_vars, chunker, rag, speech, indexer, audio, updater, task>>

InitSearch ==
    /\ InitStoreVars
    /\ env = [use_mock_ai |-> TRUE, use_key_vault |-> FALSE]
    /\ IdleServer
    /\ chunker = IdleChunker
    /\ rag = IdleRag
    /\ speech = IdleSpeech
    /\ indexer = IdleIndexer
    /\ audio = IdleAudio
    /\ updater = IdleUpdater
    /\ task = IdleTask
    /\ \E chunks \in Corpora, query \in Queries, max_results \in (0 - 1)..MaxResults :
           search = [pc |-> "call", chunks |-> chunks, query |-> query,
                     max_results |-> max_results, returned |-> <<>>]

NextSearch == SearchChunks

SpecSearch == InitSearch /\ [][NextSearch]_vars

\* ------------------------------------------------------------- claim C20
\* Two characters are the same letter once lower-cased.
C20_SameLetter(c, d) ==
    \/ c = d
    \/ {c, d} = {"a", "A"}
    \/ {c, d} = {"b", "B"}

\* The whitespace-delimited terms of the query, each as the pair of its first
\* and last position.
C20_Terms ==
    LET q == search.query
        inked(i) == q[i] \notin {" ", "\n", "\t"}
    IN  {t \in (1..Len(q)) \X (1..Len(q)) :
            /\ t[1] <= t[2]
            /\ \A i \in t[1]..t[2] : inked(i)
            /\ t[1] = 1 \/ ~inked(t[1] - 1)
            /\ t[2] = Len(q) \/ ~inked(t[2] + 1)}

\* The positions of chunk c's content at which term t occurs, case ignored.
C20_At(c, t) ==
    LET content == search.chunks[c]
        n == t[2] - t[1] + 1
    IN  {p \in 1..(Len(content) - n + 1) :
            \A k \in 0..(n - 1) :
                C20_SameLetter(content[p + k], search.query[t[1] + k])}

\* The number of occurrences of term t in chunk c: the most occurrences that
\* can be taken without two of them sharing a character.
C20_Occurrences(c, t) ==
    LET n == t[2] - t[1] + 1
        apart == {S \in SUBSET C20_At(c, t) :
                     \A p \in S, r \in S : p = r \/ p + n <= r \/ r + n <= p}
    IN  SetMax({Cardinality(S) : S \in apart})

RECURSIVE C20_Sum(_, _)
C20_Sum(c, terms) ==
    IF terms = {} THEN 0
    ELSE LET t == CHOOSE x \in terms : TRUE
         IN  C20_Occurrences(c, t) + C20_Sum(c, terms \ {t})

C20_Score(c) == C20_Sum(c, C20_Terms)

\* Chunk c is ranked ahead of chunk d.
C20_Before(c, d) ==
    \/ C20_Score(c) > C20_Score(d)
    \/ C20_Score(c) = C20_Score(d) /\ c < d

C20_State ==
    (search.pc = "returned" /\ search.max_results >= 0) =>
        LET positive == {c \in 1..Len(search.chunks) : C20_Score(c) > 0}
            r == search.returned
            given == {r[k] : k \in 1..Len(r)}
        IN  /\ Len(r) = Min(search.max_results, Cardinality(positive))
            /\ given \subseteq positive
            /\ \A k \in 1..Len(r), l \in 1..Len(r) :
                   k < l => C20_Before(r[k], r[l])
            /\ \A c \in given, d \in positive \ given : C20_Before(c, d)

RIFF == <<82, 73, 70, 70>>

WAVE == <<87, 65, 86, 69>>

\* The defaults of the two keyword parameters; the route passes neither.
sample_rate == 16000

channels == 1

\* struct.pack('<I', n) and struct.pack('<H', n): little-endian, and
\* struct.error when n does not fit the width.
fits_I(n) == n >= 0 /\ n \div 65536 < 65536

fits_H(n) == n >= 0 /\ n < 65536

pack_I(n) == <<n % 256, (n \div 256) % 256, (n \div 65536) % 256, (n \div 16777216) % 256>>

pack_H(n) == <<n % 256, (n \div 256) % 256>>

\* The recordings tried: three four-byte fields and a tail, cut to every length.
Recordings ==
    LET first == {RIFF, <<82, 73, 70, 88>>, <<79, 103, 103, 83>>}
        second == {<<0, 0, 0, 0>>, <<36, 1, 0, 0>>}
        third == {WAVE, <<87, 65, 86, 88>>}
        tail == [i \in 1..MaxAudio |-> 7]
    IN  {SubSeq(a \o b \o c \o tail, 1, n) :
            a \in first, b \in second, c \in third, n \in 0..MaxAudio}

\* The test of line 25 on the prefix only.
is_wav_riff_only(audio_data) == Slice(audio_data, 0, 4) = RIFF

is_wav(audio_data) ==
    Slice(audio_data, 0, 4) = RIFF /\ Slice(audio_data, 8, 12) = WAVE

\* What is written to the BytesIO buffer before the audio data.
wav_header(audio_data) ==
    LET byte_rate == sample_rate * channels * 2
        block_align == channels * 2
    IN  RIFF \o pack_I(36 + Len(audio_data)) \o WAVE
            \o <<102, 109, 116, 32>> \o pack_I(16) \o pack_H(1) \o pack_H(channels)
            \o pack_I(sample_rate) \o pack_I(byte_rate) \o pack_H(block_align)
            \o pack_H(16)
            \o <<100, 97, 116, 97>> \o pack_I(Len(audio_data))

\* One of the struct.pack calls raises; the except branch returns the input.
pack_raises(audio_data) ==
    \/ ~fits_I(36 + Len(audio_data))
    \/ ~fits_H(channels)
    \/ ~fits_I(sample_rate)
    \/ ~fits_I(sample_rate * channels * 2)
    \/ ~fits_H(channels * 2)

convert_audio_to_wav(audio_data) ==
    IF is_wav(audio_data) THEN audio_data
    ELSE IF pack_raises(audio_data) THEN audio_data
    ELSE wav_header(audio_data) \o audio_data

\* The conversion of the uploaded bytes.
ConvertAudioToWav ==
    /\ audio.pc = "uploaded"
    /\ audio' = [audio EXCEPT !.pc = "converted",
                              !.once = convert_audio_to_wav(audio.data)]
    /\ UNCHANGED <<store_vars, server_vars, chunker, rag, speech, indexer, search,
                   updater, task>>

\* The conversion applied to its own result.
ConvertAgain ==
    /\ audio.pc = "converted"
    /\ audio' = [audio EXCEPT !.pc = "reconverted",
                              !.twice = convert_audio_to_wav(audio.once)]
    /\ UNCHANGED <<store_vars, server_vars, chunker, rag, speech, indexer, search,
                   updater, task>>

InitAudio ==
    /\ InitStoreVars
    /\ env = [use_mock_ai |-> TRUE, use_key_vault |-> FALSE]
    /\ IdleServer
    /\ chunker = IdleChunker
    /\ rag = IdleRag
    /\ speech = IdleSpeech
    /\ indexer = IdleIndexer
    /\ search = IdleSearch
    /\ \E data \in Recordings :
           audio = [pc |-> "uploaded", data |-> data, once |-> <<>>, twice |-> <<>>]
    /\ updater = IdleUpdater
    /\ task = IdleTask

NextAudio ==
    \/ ConvertAudioToWav
    \/ ConvertAgain

SpecAudio == InitAudio /\ [][NextAudio]_vars

\* ------------------------------------------------------------- claim C21
\* The input has RIFF at bytes 0-3 and WAVE at bytes 8-11.
C21_Marked(data) ==
    /\ Len(data) >= 12
    /\ <<data[1], data[2], data[3], data[4]>> = <<82, 73, 70, 70>>
    /\ <<data[9], data[10], data[11], data[12]>> = <<87, 65, 86, 69>>

C21_State ==
    /\ audio.pc \in {"converted", "reconverted"} =>
           IF C21_Marked(audio.data)
           THEN audio.once = audio.data
           ELSE /\ Len(audio.once) = 44 + Len(audio.data)
                /\ SubSeq(audio.once, 45, Len(audio.once)) = audio.data
    /\ audio.pc = "reconverted" => audio.twice = audio.once

\* C21: convert_audio_to_wav returns its input unchanged when the input has
\* RIFF at bytes 0-3 and WAVE at bytes 8-11, and otherwise a 44-byte header
\* followed by the input; applying it twice gives what applying it once gives.
C21_Theorem == [](C21_State)

\* A recording with RIFF but without WAVE has been wrapped, and the second
\* conversion has left the wrapped bytes alone.
C21_Witness ==
    /\ audio.pc = "reconverted"
    /\ Len(audio.data) = 12
    /\ SubSeq(audio.data, 1, 4) = <<82, 73, 70, 70>>
    /\ SubSeq(audio.data, 9, 12) = <<87, 65, 86, 88>>
    /\ Len(audio.twice) = 56
    /\ SubSeq(audio.twice, 1, 12) = <<82, 73, 70, 70, 48, 0, 0, 0, 87, 65, 86, 69>>

\* ------------------------------------------------------------- claim C23
\* get_configuration has been invoked at most once, and exactly once when
\* the cache holds a bundle.
C23_State ==
    /\ config_loads <= 1
    /\ config_cache # NoConfig <=> config_loads = 1
    /\ \A r \in Reqs : req[r].pc # "idle" => config_cache = get_configuration

\* The bundle in the cache is never replaced.
C23_Step == config_cache # NoConfig => config_cache' = config_cache

\* C23: the AI chat routes load the configuration at most once per process:
\* whatever the number of requests, also with several in flight at once,
\* get_configuration is invoked once and every later get_cached_config
\* returns the bundle loaded then.
C23_Theorem == [](C23_State) /\ [][C23_Step]_vars

\* Two requests wait on the model at the same time after a single load.
C23_Witness ==
    /\ req[1].pc = "generating"
    /\ req[2].pc = "generating"
    /\ config_loads = 1
    /\ config_cache = get_configuration

\* ------------------------------------------------------------- claim C22
\* Both slots hold a finished POST /ai/chat on the same session whose
\* generation succeeded.
C22_Case ==
    /\ \A r \in Reqs : /\ req[r].kind = "chat"
                       /\ req[r].pc = "done"
                       /\ req[r].generated = "yes"
    /\ req[1].session = req[2].session

\* Positions of the messages of a role in the history of the shared session.
C22_Role(role) ==
    LET messages == heap[req[1].session].messages
    IN  {i \in 1..Len(messages) : messages[i].role = role}

\* C22: when two POST /ai/chat requests run against the same session, no
\* append is lost: the history holds the user message and the assistant
\* message of both, each request's user message ahead of its assistant
\* message (so the first assistant message has a user message before it and
\* the last user message has an assistant message after it).
C22_Claim ==
    C22_Case =>
        /\ Cardinality(C22_Role("user")) = 2
        /\ Cardinality(C22_Role("assistant")) = 2
        /\ SetMin(C22_Role("user")) < SetMin(C22_Role("assistant"))
        /\ SetMax(C22_Role("user")) < SetMax(C22_Role("assistant"))

\* ======================================= ai_routes.analyze_conversation_context
\* The background task, run for a session id against a store that holds, or
\* has held, one session. Its only suspension point is the model call.

\* A session with n messages, user and assistant in turn, written at time 0.
RECURSIVE Conversation(_)
Conversation(n) ==
    IF n = 0 THEN ConversationSession(1, "None", 0)
    ELSE add_message(Conversation(n - 1),
                     IF n % 2 = 1 THEN "user" ELSE "assistant", <<"a">>, "None", 0)

\* What AIService.analyze_conversation_context returns from its except block.
analysis_failed == [context_summary |-> "", topics |-> <<>>, sentiment |-> "neutral"]

\* How the model call of the analysis ends: a JSON object with the analysis,
\* a failure (exception, or text that is not JSON), or JSON that is no object.
ModelOutcomes ==
    IF ai_service.use_mock THEN {"failed"} ELSE {"object", "failed", "not_object"}

\* `if not session: return` and `if session.get_conversation_length() < 3: return`
skips_absent_only(ref) == ref = 0

skips(ref) == ref = 0 \/ get_conversation_length(heap[ref]) < 3

\* The task from its start to its return or to the model call.
AnalyzeStart ==
    /\ task.pc = "scheduled"
    /\ IF skips(get_session(task.session_id))
       THEN /\ task' = [task EXCEPT !.pc = "returned"]
            /\ UNCHANGED <<config_cache, config_loads, ai_service>>
       ELSE /\ AfterConfig(0, "task")
            /\ task' = [task EXCEPT !.pc = "analyzing"]
    /\ UNCHANGED <<store_vars, env, background_tasks, req, chunker, rag, speech,
                   indexer, search, audio, updater>>

\* update_session_context is reached with what the analysis returned: the
\* parsed object, or the dict of its except block; .get on JSON that is no
\* object raises into the task's own except block.
overwrites(outcome) == outcome \in {"object", "failed"}

\* The model call ends and the task runs to its end.
AnalyzeEnd ==
    /\ task.pc = "analyzing"
    /\ \E outcome \in ModelOutcomes :
        LET ref == get_session(task.session_id)
            analysis == IF outcome = "object"
                        THEN [context_summary |-> "s1", topics |-> <<"t1">>,
                              sentiment |-> "positive"]
                        ELSE analysis_failed
        IN  /\ heap' = IF overwrites(outcome) /\ ref # 0
                       THEN [heap EXCEPT ![ref] = update_context(
                                @, analysis.context_summary, analysis.topics,
                                analysis.sentiment, now)]
                       ELSE heap
            /\ task' = [task EXCEPT !.pc = "returned", !.outcome = outcome]
    /\ UNCHANGED <<now, sessions, last_call, prev_call, calls, server_vars, chunker,
                   rag, speech, indexer, search, audio, updater>>

InitTask ==
    /\ now = 1
    /\ last_call = NoCall
    /\ prev_call = NoCall
    /\ calls = 0
    /\ \E n \in 0..MaxHistory, analysed \in BOOLEAN, stored \in BOOLEAN :
        /\ heap = <<IF analysed
                    THEN update_context(Conversation(n), "s0", <<"t0">>, "negative", 0)
                    ELSE Conversation(n)>>
        /\ sessions = IF stored THEN DictSet(EmptyDict, 1, 1) ELSE EmptyDict
    /\ env \in [use_mock_ai : BOOLEAN, use_key_vault : {FALSE}]
    /\ config_cache = get_configuration
    /\ config_loads = 1
    /\ ai_service = AIService(get_configuration)
    /\ req = [r \in Reqs |-> IdleReq]
    /\ \E session_id \in {1, GhostId} :
        /\ background_tasks = <<session_id>>
        /\ task = [pc |-> "scheduled", session_id |-> session_id, outcome |-> "none"]
    /\ chunker = IdleChunker
    /\ rag = IdleRag
    /\ speech = IdleSpeech
    /\ indexer = IdleIndexer
    /\ search = IdleSearch
    /\ audio = IdleAudio
    /\ updater = IdleUpdater

NextTask ==
    \/ AnalyzeStart
    \/ AnalyzeEnd
    \/ DeleteConversation
    \/ ClockTick

SpecTask == InitTask /\ [][NextTask]_vars

\* ------------------------------------------------------------- claim C24
\* The step is one of the task's own.
C24_TaskStep == task.pc # "none" /\ task' # task

\* The task starts while its session is absent from the store or holds fewer
\* than three messages.
C24_Skipped ==
    /\ task.pc = "scheduled"
    /\ \/ task.session_id \notin DOMAIN sessions
       \/ Len(heap[sessions[task.session_id]].messages) < 3

C24_Step ==
    /\ (C24_TaskStep /\ C24_Skipped) =>
           /\ task'.pc = "returned"
           /\ heap' = heap
           /\ <<config_cache, config_loads, ai_service>>'
                  = <<config_cache, config_loads, ai_service>>
    /\ C24_TaskStep =>
           /\ sessions' = sessions
           /\ Len(heap') = Len(heap)
           /\ req' = req
           /\ background_tasks' = background_tasks

\* C24: the background analysis changes nothing when its session is absent
\* from the store or holds fewer than three messages; it never inserts a
\* session into the store, and nothing that happens inside it, a failure
\* included, touches the requests or their responses.
C24_Theorem == [][C24_Step]_vars

\* The task has returned without a model call for a stored session of two
\* messages.
C24_Witness ==
    /\ task.pc = "returned"
    /\ task.outcome = "none"
    /\ task.session_id \in DOMAIN sessions
    /\ Len(heap[sessions[task.session_id]].messages) = 2

\* ------------------------------------------------------------- claim C25
\* The model call of the analysis has failed, or its answer was not JSON.
C25_Failed == task.pc = "analyzing" /\ task'.pc = "returned" /\ task'.outcome = "failed"

\* C25: when the model call made for the analysis fails or returns malformed
\* JSON, the session's stored context_summary, topics, sentiment and
\* updated_at stay as they were.
C25_Claim == [][C25_Failed => heap' = heap]_vars

\* ------------------------------------------------------------- claim C26
\* Every key of the session map is the session_id of the session under it.
C26_State ==
    \A k \in DOMAIN sessions : heap[sessions[k]].session_id = k

\* The step is a call of get_or_create_session with a non-empty id that the
\* store does not hold.
C26_Unknown ==
    /\ calls' = calls + 1
    /\ now' = now
    /\ prev_call' = last_call
    /\ last_call'.op = "get_or_create_session"
    /\ last_call'.arg \notin {NoneId, EmptyId}
    /\ last_call'.arg \notin DOMAIN sessions

C26_Step ==
    C26_Unknown =>
        /\ Len(heap') = Len(heap) + 1
        /\ \E fresh \in DOMAIN sessions' :
               /\ DOMAIN sessions' = DOMAIN sessions \cup {fresh}
               /\ fresh \notin DOMAIN sessions
               /\ fresh # last_call'.arg
               /\ \A ref \in 1..Len(heap) : heap[ref].session_id # fresh
               /\ sessions'[fresh] = last_call'.ret
        /\ last_call'.arg \notin DOMAIN sessions'

\* C26: every key of the session map equals the session_id of the session
\* stored under it, and an id comes from the store only: get_or_create_session
\* with an unknown non-empty id stores the new session under a freshly
\* generated id, never under the supplied one, so the same call made again
\* creates one more session.
C26_Theorem == [](C26_State) /\ [][C26_Step]_vars

\* The same never-issued id was presented twice in a row, and two sessions
\* were created.
C26_Witness ==
    /\ prev_call.op = "get_or_create_session"
    /\ last_call.op = "get_or_create_session"
    /\ prev_call.arg = GhostId
    /\ last_call.arg = GhostId
    /\ prev_call.ret # last_call.ret
    /\ Cardinality(DOMAIN sessions) = 2

\* ------------------------------------------------------------- claim C27
\* Request r is a POST /ai/chat whose response generation fails in this step.
C27_Fails(r) ==
    /\ req[r].kind = "chat"
    /\ req[r].pc = "generating"
    /\ req'[r].pc = "done"
    /\ req'[r].generated = "failed"

C27_Step ==
    \A r \in Reqs :
        C27_Fails(r) =>
            /\ req'[r].status = 500
            /\ heap' = heap
            /\ sessions' = sessions
            /\ background_tasks' = background_tasks
            /\ \E i \in 1..Len(heap[req[r].session].messages) :
                   LET m == heap[req[r].session].messages[i]
                   IN  m.role = "user" /\ m.content = req[r].message

\* C27: when response generation fails in POST /ai/chat the request ends with
\* 500, no assistant message is appended and no analysis is scheduled, and
\* what was done before is kept: the user message stays in the history and
\* the session stays in the store.
C27_Theorem == [][C27_Step]_vars

\* A chat without session id has failed in generation: its session is in the
\* store and holds the user message only.
C27_Witness ==
    /\ req[1].kind = "chat"
    /\ req[1].pc = "done"
    /\ req[1].generated = "failed"
    /\ req[1].status = 500
    /\ req[1].session_id = NoneId
    /\ req[2].pc = "idle"
    /\ heap[req[1].session].session_id \in DOMAIN sessions
    /\ Len(heap[req[1].session].messages) = 1
    /\ heap[req[1].session].messages[1].role = "user"
    /\ background_tasks = <<>>

\* ------------------------------------------------------------- claim C28
\* Request r ends in this step after its session was removed from the store
\* while it waited on the model.
C28_Ends(r) ==
    /\ req[r].pc \in {"generating", "streaming"}
    /\ req'[r].pc = "done"
    /\ heap[req[r].session].session_id \notin DOMAIN sessions

\* The chat request whose generation returned answers with the session id.
C28_Chat(r) ==
    (req[r].kind = "chat" /\ req'[r].generated = "yes") =>
        /\ req'[r].status = 200
        /\ HasAttr(req'[r].response, "session_id")
        /\ req'[r].response.session_id = heap[req[r].session].session_id

\* The stream request has sent the session event with the session id.
C28_Stream(r) ==
    req[r].kind = "stream" =>
        \E i \in 1..Len(req'[r].body) :
            /\ req'[r].body[i].type = "session"
            /\ req'[r].body[i].session_id = heap[req[r].session].session_id

\* An id that was issued and is not in the store is not in the store after
\* the step either.
C28_Absent ==
    \A k \in 1..Len(heap) : k \notin DOMAIN sessions => k \notin DOMAIN sessions'

C28_Streams == [][C28_Absent /\ \A r \in Reqs : C28_Ends(r) => C28_Stream(r)]_vars

\* C28: a chat or stream request whose session is removed while it waits on
\* the model still completes with the session id in its response, and the
\* session is never put back into the store.
C28_Claim ==
    [][/\ C28_Absent
       /\ \A r \in Reqs : C28_Ends(r) => (C28_Chat(r) /\ C28_Stream(r))]_vars

\* ------------------------------------------------------------- claim C29
\* initialize() has completed without raising: the service is healthy.
C29_Healthy == rag.svc.initialized => is_healthy(rag.svc).value = "True"

\* initialize() has raised: the service is not initialized.
C29_Raised ==
    (rag.last.op = "initialize" /\ rag.last.raised # "None") => ~rag.svc.initialized

C29_RaisedOnly == (rag.pc = "ready" /\ ~rag.svc.debug_mode) => C29_Raised

\* C29: outside debug mode, once initialize() has completed without raising
\* is_healthy() returns true, under every environment in which it can
\* complete; and when initialize() raises, initialized stays false.
C29_Claim ==
    (rag.pc = "ready" /\ ~rag.svc.debug_mode) => (C29_Healthy /\ C29_Raised)

\* ------------------------------------------------------------- claim C30
\* The run was given a folder that does not exist and has ended.
C30_Case ==
    /\ updater.pc = "exited"
    /\ updater.has_folder
    /\ ~updater.exists

\* C30: given a --folder that does not exist, update_search_index exits
\* non-zero without having changed anything: no container has been created
\* and no index deleted or created, with or without --rebuild.
C30_Claim ==
    C30_Case =>
        /\ updater.exit_code # 0
        /\ updater.container_exists = updater.before.container_exists
        /\ updater.index = updater.before.index

\* The exit code alone: such a run never exits with 0.
C30_ExitCode == C30_Case => updater.exit_code = 1

=============================================================================
